---- MODULE Spec2Model ----
(***************************************************************************)
(* SSE Hooks (SSEH): the JSON backed hook registry of src/src/sse-hooks.cpp *)
(* (the revision that keeps the registry in sseh_json), its validation,    *)
(* its address resolution and its detour life cycle on top of the MinHook  *)
(* engine.                                                                 *)
(*                                                                         *)
(* Strings are sequences of one-character strings, so that the address     *)
(* conversions (std::stoull, hex_string) and the JSON pointer syntax are   *)
(* computed, not assumed.  Error messages, which are only ever compared    *)
(* with the empty string, are plain strings.                               *)
(***************************************************************************)
EXTENDS Integers, Sequences, FiniteSets, TLC

(***************************************************************************)
(* Bounds of the model.                                                    *)
(***************************************************************************)
\* number of API calls in one behaviour
MaxCalls == 3

\* the number of API calls a behaviour of the hooking operations is followed for
MaxEngineCalls == 5

\* the number of API calls a behaviour of the hooks-vector revision is followed for
MaxEarlyCalls == 5

\* the number of steps a behaviour of two threads is followed for
MaxThreadCalls == 4

\* the number of API calls a behaviour of the queries is followed for
MaxQueryCalls == 3

\* the number of calls a behaviour of the start of the plugin is followed for
MaxStartupCalls == 2

(***************************************************************************)
(* Characters and std::stoull (str, nullptr, 0).                           *)
(***************************************************************************)
lut == <<"0","1","2","3","4","5","6","7","8","9","a","b","c","d","e","f">>

DigitValue(c) ==
    CASE c = "0" -> 0  [] c = "1" -> 1  [] c = "2" -> 2  [] c = "3" -> 3
      [] c = "4" -> 4  [] c = "5" -> 5  [] c = "6" -> 6  [] c = "7" -> 7
      [] c = "8" -> 8  [] c = "9" -> 9
      [] c \in {"a", "A"} -> 10  [] c \in {"b", "B"} -> 11
      [] c \in {"c", "C"} -> 12  [] c \in {"d", "D"} -> 13
      [] c \in {"e", "E"} -> 14  [] c \in {"f", "F"} -> 15
      [] OTHER -> 99

IsDigit(c, base) == DigitValue(c) < base

isspace(c) == c \in {" ", "\t", "\n"}

RECURSIVE SkipSpace(_)
SkipSpace(s) == IF s # <<>> /\ isspace(Head(s)) THEN SkipSpace(Tail(s)) ELSE s

\* the longest prefix of s made of digits of the base, accumulated on acc;
\* n counts the digits consumed
RECURSIVE Digits(_, _, _, _)
Digits(s, base, acc, n) ==
    IF s # <<>> /\ IsDigit(Head(s), base)
    THEN Digits(Tail(s), base, acc * base + DigitValue(Head(s)), n + 1)
    ELSE [v |-> acc, n |-> n]

\* std::stoull with base 0: leading white space and a '+' are skipped, the
\* prefix selects base 16, 8 or 10, the digits run up to the first character
\* that is no digit, and no digit at all is std::invalid_argument.  The
\* numerals of this model stay far below 2^64 (std::out_of_range).
stoull(str) ==
    LET s0 == SkipSpace(str)
        s1 == IF s0 # <<>> /\ Head(s0) = "+" THEN Tail(s0) ELSE s0
        hex == /\ Len(s1) >= 3 /\ s1[1] = "0" /\ s1[2] \in {"x", "X"}
               /\ IsDigit(s1[3], 16)
        oct == ~hex /\ s1 # <<>> /\ s1[1] = "0"
        base == IF hex THEN 16 ELSE IF oct THEN 8 ELSE 10
        body == IF hex THEN SubSeq(s1, 3, Len(s1)) ELSE s1
        d == Digits(body, base, 0, 0)
    IN  IF d.n = 0 THEN [ok |-> FALSE, v |-> 0] ELSE [ok |-> TRUE, v |-> d.v]

(***************************************************************************)
(* hex_string (v, shrink = true) of winutils.hpp, for T = std::uintptr_t:  *)
(* dst has sizeof(T)*2+2+1 = 19 cells, numbered from 0 in the source and   *)
(* from 1 here.                                                            *)
(***************************************************************************)
DstSize == 19

\* the loop  for (i = dst.size()-1; i--; v >>= 4)
RECURSIVE hex_loop(_, _, _, _)
hex_loop(i, v, dst, x) ==
    IF i < 0 THEN [dst |-> dst, x |-> x]
    ELSE hex_loop(i - 1, v \div 16,
                  [dst EXCEPT ![i + 1] = lut[(v % 16) + 1]],
                  IF (v % 16) # 0 THEN i ELSE x)

hex_string(v) ==
    LET r == hex_loop(DstSize - 2, v, [i \in 1..DstSize |-> "?"], DstSize - 2)
        dst == [r.dst EXCEPT ![r.x] = "x", ![r.x - 1] = "0"]
    IN  SubSeq(dst, r.x - 1, DstSize - 1)

(***************************************************************************)
(* nlohmann::json values.                                                  *)
(***************************************************************************)
JNull == [t |-> "null"]
JStr(s) == [t |-> "string", s |-> s]
JNum(n) == [t |-> "number", n |-> n]
JBool(b) == [t |-> "boolean", b |-> b]
NoMembers == [k \in {} |-> JNull]
JObj(members) == [t |-> "object", o |-> members]

is_object(j) == j.t = "object"
is_string(j) == j.t = "string"

\* basic_json::contains (key)
contains(j, key) == is_object(j) /\ key \in DOMAIN j.o

K_map == <<"m","a","p">>
K_target == <<"t","a","r","g","e","t">>
K_detours == <<"d","e","t","o","u","r","s">>
K_original == <<"o","r","i","g","i","n","a","l">>
K_profiles == <<"p","r","o","f","i","l","e","s">>
K_applied == <<"a","p","p","l","i","e","d">>
K_status == <<"s","t","a","t","u","s">>

\* one member more (or replaced) in an object
Put(members, key, value) ==
    [k \in DOMAIN members \cup {key} |-> IF k = key THEN value ELSE members[k]]

Drop(members, key) == [k \in DOMAIN members \ {key} |-> members[k]]

\* is_pointer (json, request): a string that std::stoull converts
is_pointer(j) == is_string(j) /\ stoull(j.s).ok

pointer_value(j) == stoull(j.s).v

(***************************************************************************)
(* nlohmann::json::json_pointer (RFC 6901): the text is split at '/', and  *)
(* in every reference token '~' must be followed by '0' or '1'.            *)
(***************************************************************************)
\* the reference tokens of a text that starts with '/', still escaped
RECURSIVE split(_, _, _)
split(s, cur, out) ==
    IF s = <<>> THEN Append(out, cur)
    ELSE IF Head(s) = "/" THEN split(Tail(s), <<>>, Append(out, cur))
    ELSE split(Tail(s), Append(cur, Head(s)), out)

RECURSIVE escape_ok(_)
escape_ok(tok) ==
    IF tok = <<>> THEN TRUE
    ELSE IF Head(tok) = "~"
         THEN Len(tok) >= 2 /\ tok[2] \in {"0", "1"} /\ escape_ok(Tail(Tail(tok)))
         ELSE escape_ok(Tail(tok))

RECURSIVE unescape(_)
unescape(tok) ==
    IF tok = <<>> THEN <<>>
    ELSE IF Head(tok) = "~"
         THEN <<IF tok[2] = "1" THEN "/" ELSE "~">> \o unescape(Tail(Tail(tok)))
         ELSE <<Head(tok)>> \o unescape(Tail(tok))

json_pointer(s) ==
    IF s = <<>> THEN [ok |-> TRUE, tokens |-> <<>>]
    ELSE IF Head(s) # "/" THEN [ok |-> FALSE, tokens |-> <<>>]
    ELSE LET raw == split(Tail(s), <<>>, <<>>)
         IN  IF \A i \in 1..Len(raw) : escape_ok(raw[i])
             THEN [ok |-> TRUE, tokens |-> [i \in 1..Len(raw) |-> unescape(raw[i])]]
             ELSE [ok |-> FALSE, tokens |-> <<>>]

\* basic_json::at (json_pointer), the checked access: a token that is no
\* member of an object, or any token below a null or a primitive, throws
\* out_of_range
RECURSIVE at(_, _)
at(j, tokens) ==
    IF tokens = <<>> THEN [ok |-> TRUE, j |-> j]
    ELSE IF contains(j, Head(tokens)) THEN at(j.o[Head(tokens)], Tail(tokens))
    ELSE [ok |-> FALSE, j |-> JNull]

\* at (json_pointer (text)), with the pointer's parse error
at_text(j, text) ==
    LET p == json_pointer(text)
    IN  IF p.ok THEN at(j, p.tokens) ELSE [ok |-> FALSE, j |-> JNull]

\* the chain  j[k1][k2]...[kn] = value  of the non-const operator[] (key):
\* a null becomes an object, a missing member is created, and a value that is
\* neither null nor an object throws type_error, which can only happen at a
\* member that was there before, so that nothing has been created by then
RECURSIVE assign(_, _, _)
assign(j, keys, value) ==
    IF keys = <<>> THEN [ok |-> TRUE, j |-> value]
    ELSE IF j.t \notin {"null", "object"} THEN [ok |-> FALSE, j |-> j]
    ELSE LET members == IF is_object(j) THEN j.o ELSE NoMembers
             key == Head(keys)
             child == IF key \in DOMAIN members THEN members[key] ELSE JNull
             r == assign(child, Tail(keys), value)
         IN  [ok |-> r.ok, j |-> JObj(Put(members, key, r.j))]

(***************************************************************************)
(* validate (json) of sse-hooks.cpp.                                       *)
(***************************************************************************)
\* basic_json::items (): the members of an object, nothing for null, and the
\* value itself under the key "" for a primitive
items(j) ==
    IF is_object(j) THEN {<<k, j.o[k]>> : k \in DOMAIN j.o}
    ELSE IF j.t = "null" THEN {}
    ELSE {<<<<>>, j>>}

\* detour_ok without the conversion of the key
detour_ok_any_key(di) ==
    /\ contains(di[2], K_original)
    /\ is_pointer(di[2].o[K_original])

\* one entry of "detours": the key converts and "original" is an address
detour_ok(di) ==
    /\ stoull(di[1]).ok
    /\ contains(di[2], K_original)
    /\ is_pointer(di[2].o[K_original])

\* entry_ok without the check of the detours
entry_ok_target_only(map) ==
    \/ ~contains(map, K_target)
    \/ is_pointer(map.o[K_target])

\* one entry of "map" passes: it has no target, or its target is an address
\* and every detour of it is well formed
entry_ok(map) ==
    \/ ~contains(map, K_target)
    \/ /\ is_pointer(map.o[K_target])
       /\ \/ ~contains(map, K_detours)
          \/ \A di \in items(map.o[K_detours]) : detour_ok(di)

\* "ok", "throw" (std::runtime_error, or type_error when json is no object),
\* or "undefined": the const operator[] ("map") of an object that has no
\* such member, an assertion of the library and undefined behaviour without it
validate(json) ==
    IF ~is_object(json) THEN "throw"
    ELSE IF K_map \notin DOMAIN json.o THEN "undefined"
    ELSE IF \A it \in items(json.o[K_map]) : entry_ok(it[2]) THEN "ok"
    ELSE "throw"

\* what a build makes of the undefined access: with assertions the process
\* aborts; without them (NDEBUG) the garbage that is read passes the checks,
\* fails them, or crashes the process
validate_outcomes(json, ndebug) ==
    IF validate(json) # "undefined" THEN {validate(json)}
    ELSE IF ndebug THEN {"abort", "ok", "throw"} ELSE {"abort"}

(***************************************************************************)
(* basic_json::patch (json_patch), RFC 6902, as sseh_merge_patch calls it. *)
(* A parsed patch text is [array |-> is it a JSON array, ops |-> its       *)
(* elements]; an element is [op, path, value].                             *)
(***************************************************************************)
PatchOps == {"add", "remove", "replace", "test"}

\* replace the value at tokens, which at () has resolved
RECURSIVE put_at(_, _, _)
put_at(j, tokens, value) ==
    IF tokens = <<>> THEN value
    ELSE JObj([j.o EXCEPT ![Head(tokens)] = put_at(@, Tail(tokens), value)])

\* operator[] (json_pointer), the unchecked access that creates what is
\* missing: result is the value reached, or a throw at a primitive
RECURSIVE get_unchecked(_, _)
get_unchecked(j, tokens) ==
    IF tokens = <<>> THEN [ok |-> TRUE, j |-> j]
    ELSE IF j.t \notin {"null", "object"} THEN [ok |-> FALSE, j |-> j]
    ELSE IF contains(j, Head(tokens))
         THEN get_unchecked(j.o[Head(tokens)], Tail(tokens))
         ELSE get_unchecked(JNull, Tail(tokens))

\* operation_add: the top element must exist; the parent is reached by the
\* unchecked access; into a null or an object the member is written, and a
\* primitive parent is assert (false): "abort" with assertions, nothing
\* without them
operation_add(result, tokens, val) ==
    IF tokens = <<>> THEN [st |-> "ok", j |-> val]
    ELSE IF Len(tokens) > 1 /\ ~at(result, <<Head(tokens)>>).ok
         THEN [st |-> "throw", j |-> result]
    ELSE LET parent == get_unchecked(result, SubSeq(tokens, 1, Len(tokens) - 1))
         IN  IF ~parent.ok THEN [st |-> "throw", j |-> result]
             ELSE IF parent.j.t \in {"null", "object"}
                  THEN [st |-> "ok", j |-> assign(result, tokens, val).j]
                  ELSE [st |-> "assert", j |-> result]

\* operation_remove: the parent must resolve; a member that is missing from
\* an object throws, and a parent that is no object is left alone
operation_remove(result, tokens) ==
    IF tokens = <<>> THEN [st |-> "throw", j |-> result]
    ELSE LET ptr == SubSeq(tokens, 1, Len(tokens) - 1)
             last_path == tokens[Len(tokens)]
             parent == at(result, ptr)
         IN  IF ~parent.ok THEN [st |-> "throw", j |-> result]
             ELSE IF ~is_object(parent.j) THEN [st |-> "ok", j |-> result]
             ELSE IF last_path \notin DOMAIN parent.j.o
                  THEN [st |-> "throw", j |-> result]
                  ELSE [st |-> "ok",
                        j |-> put_at(result, ptr, JObj(Drop(parent.j.o, last_path)))]

\* one operation of the patch on the copy
apply_op(result, op) ==
    LET p == json_pointer(op.path)
    IN  IF op.op \notin PatchOps \/ ~p.ok THEN [st |-> "throw", j |-> result]
        ELSE CASE op.op = "add" -> operation_add(result, p.tokens, op.value)
               [] op.op = "remove" -> operation_remove(result, p.tokens)
               [] op.op = "replace" ->
                    IF at(result, p.tokens).ok
                    THEN [st |-> "ok", j |-> put_at(result, p.tokens, op.value)]
                    ELSE [st |-> "throw", j |-> result]
               [] op.op = "test" ->
                    IF at(result, p.tokens).ok /\ at(result, p.tokens).j = op.value
                    THEN [st |-> "ok", j |-> result]
                    ELSE [st |-> "throw", j |-> result]

\* apply_ops going on after an operation that throws
RECURSIVE apply_ops_lenient(_, _, _)
apply_ops_lenient(result, ops, ndebug) ==
    IF ops = <<>> THEN [st |-> "ok", j |-> result]
    ELSE apply_ops_lenient(apply_op(result, Head(ops)).j, Tail(ops), ndebug)

\* the operations in turn; the first that throws ends the patch.  A failed
\* assertion aborts the process, and without assertions (NDEBUG) the operation
\* has done nothing and the next one follows
RECURSIVE apply_ops(_, _, _)
apply_ops(result, ops, ndebug) ==
    IF ops = <<>> THEN [st |-> "ok", j |-> result]
    ELSE LET r == apply_op(result, Head(ops))
         IN  IF r.st = "ok" \/ (r.st = "assert" /\ ndebug)
             THEN apply_ops(r.j, Tail(ops), ndebug)
             ELSE IF r.st = "assert" THEN [st |-> "abort", j |-> result]
             ELSE r

\* patch (): works on a copy of the document; a patch that is no array throws
patch(j, json_patch, ndebug) ==
    IF ~json_patch.array THEN [st |-> "throw", j |-> j]
    ELSE apply_ops(j, json_patch.ops, ndebug)

(***************************************************************************)
(* basic_json::dump (4), the text sseh_identify reports.                   *)
(***************************************************************************)
\* the characters of the model in the order of their codes
Alphabet == <<"\n", " ", "\"", "+", ",", "/", "0", "1", "2", "3", "4", "5",
              "6", "7", "8", "9", ":", "@", "A", "a", "b", "c", "d", "e", "f",
              "g", "i", "k", "l", "m", "n", "o", "p", "r", "s", "t", "u", "x",
              "z", "{", "}", "~">>

Code(c) == CHOOSE i \in 1..Len(Alphabet) : Alphabet[i] = c

\* std::string's operator<, the order of the members of an object
RECURSIVE less(_, _)
less(a, b) ==
    IF b = <<>> THEN FALSE
    ELSE IF a = <<>> THEN TRUE
    ELSE IF Head(a) # Head(b) THEN Code(Head(a)) < Code(Head(b))
    ELSE less(Tail(a), Tail(b))

\* the keys of an object in the order of iteration
RECURSIVE sorted(_)
sorted(keys) ==
    IF keys = {} THEN <<>>
    ELSE LET first == CHOOSE k \in keys : \A o \in keys \ {k} : less(k, o)
         IN  <<first>> \o sorted(keys \ {first})

chars(str) == [i \in 1..Len(str) |-> SubSeq(str, i, i)]

RECURSIVE decimal(_)
decimal(n) ==
    IF n < 10 THEN <<lut[n + 1]>> ELSE decimal(n \div 10) \o <<lut[(n % 10) + 1]>>

spaces(n) == [i \in 1..n |-> " "]

RECURSIVE dump(_, _)
dump(j, current_indent) ==
    CASE j.t = "null" -> <<"n","u","l","l">>
      [] j.t = "boolean" -> IF j.b THEN <<"t","r","u","e">> ELSE <<"f","a","l","s","e">>
      [] j.t = "number" -> decimal(j.n)
      [] j.t = "string" -> <<"\"">> \o j.s \o <<"\"">>
      [] j.t = "object" ->
           IF DOMAIN j.o = {} THEN <<"{", "}">>
           ELSE LET keys == sorted(DOMAIN j.o)
                    new_indent == current_indent + 4
                    member(i) == spaces(new_indent) \o <<"\"">> \o keys[i]
                                 \o <<"\"", ":", " ">>
                                 \o dump(j.o[keys[i]], new_indent)
                                 \o (IF i < Len(keys) THEN <<",", "\n">> ELSE <<"\n">>)
                    members[i \in 0..Len(keys)] ==
                        IF i = 0 THEN <<>> ELSE members[i - 1] \o member(i)
                IN  <<"{", "\n">> \o members[Len(keys)]
                    \o spaces(current_indent) \o <<"}">>

(***************************************************************************)
(* The inputs of the model: names, addresses, and the surroundings of the  *)
(* library (the exports of the host process, the address library).         *)
(***************************************************************************)
S_f == <<"f">>
S_g == <<"g">>
S_k == <<"k">>
S_sm == <<"s", "@", "m">>

\* names given to sseh_map_name, sseh_find_target and sseh_detour
Names == {S_f, S_g, S_k, S_sm}

\* target addresses
Addrs == {16, 32}

\* addresses of detour functions
DetourAddrs == {48}

\* profiles: the default one and one more
ProfileNames == {<<>>, <<"A">>}

Slots == 0..(Cardinality(ProfileNames) - 1)

\* GetModuleHandle and GetProcAddress: module "m" is loaded and exports "s"
HostExports == [module |-> <<"m">>, name |-> <<"s">>, address |-> 32]

\* the address library once it is loaded: the name "k" has id 7, at 16
LoadedLibrary == [names |-> << <<S_k, 7>> >>, data |-> << <<7, 16>> >>]
EmptyLibrary == [names |-> <<>>, data |-> <<>>]

\* address_library::find (v, c): the second of the pair whose first is v, or 0
find(v, c) ==
    IF \E i \in 1..Len(c) : c[i][1] = v
    THEN c[CHOOSE i \in 1..Len(c) : c[i][1] = v][2]
    ELSE 0

\* address_library::find (name)
addrlib_find(lib, name) ==
    LET id == find(name, lib.names)
    IN  IF id # 0 THEN find(id, lib.data) ELSE 0

VARIABLES
    sseh_json,      \* the JSON configuration database
    sseh_profiles,  \* profile name -> index of its MinHook instance
    sseh_error,     \* the last error message of the library
    mh,             \* the MinHook instances, one per slot
    cur,            \* the instance switch_globals has selected
    addrlib,        \* the address library
    ndebug,         \* the build: are the assertions of the JSON library off
    alive,          \* the process has not been aborted
    op, arg, ret, out,  \* the last API call, its arguments and its results
    prev_json,      \* sseh_json as it was before the last API call
    prev_mh,        \* mh as it was before the last API call
    prev_profiles,  \* sseh_profiles as it was before the last API call
    prev_cur,       \* cur as it was before the last API call
    calls,          \* number of API calls made
    limit,          \* number of API calls the behaviour is followed for
    hooks,          \* the hooks of the revision that kept them in a vector
    hook_names,     \* that revision: name -> index in hooks
    hook_addresses, \* that revision: address -> index in hooks
    prev_hooks,     \* hooks as it was before the last API call
    caller,         \* the thread that made the last API call
    own,            \* thread -> the message its own last call left
    pending         \* thread -> the sseh_map_name it is in the middle of

vars == <<sseh_json, sseh_profiles, sseh_error, mh, cur, addrlib, ndebug,
          alive, op, arg, ret, out, prev_json, prev_mh, prev_profiles, calls,
          limit, hooks, hook_names, hook_addresses, prev_hooks, caller, own,
          pending, prev_cur>>

NoHooks == [target \in {} |-> 0]
NoProfiles == [profile \in {} |-> 0]
NoOut == [t |-> "none"]
NoIndex == [key \in {} |-> 0]

\* the threads that call the API
Threads == {1, 2}

\* the library after it is loaded, before any call
Loaded ==
    /\ sseh_json = JNull
    /\ sseh_profiles = NoProfiles
    /\ sseh_error = ""
    /\ mh = [slot \in Slots |-> [init |-> FALSE, hooks |-> NoHooks]]
    /\ cur = 0
    /\ addrlib \in {EmptyLibrary, LoadedLibrary}
    /\ ndebug \in BOOLEAN
    /\ alive = TRUE
    /\ op = "none" /\ arg = NoOut /\ ret = "none" /\ out = NoOut
    /\ prev_json = JNull
    /\ prev_mh = mh
    /\ prev_profiles = NoProfiles
    /\ prev_cur = 0
    /\ calls = 0
    /\ hooks = <<>>
    /\ hook_names = NoIndex
    /\ hook_addresses = NoIndex
    /\ prev_hooks = <<>>
    /\ caller = 1
    /\ own = [thread \in Threads |-> ""]
    /\ pending = [thread \in Threads |-> NoOut]

Init == Loaded /\ limit = MaxCalls

\* an API call begins: it is recorded, with the document it finds
Call(name, argument) ==
    /\ alive
    /\ calls < limit
    /\ calls' = calls + 1
    /\ op' = name
    /\ arg' = argument
    /\ prev_json' = sseh_json
    /\ prev_mh' = mh
    /\ prev_profiles' = sseh_profiles
    /\ prev_cur' = cur
    /\ UNCHANGED <<addrlib, ndebug, limit>>
    /\ UNCHANGED <<hooks, hook_names, hook_addresses, prev_hooks>>
    /\ UNCHANGED <<caller, own, pending>>

Bool(b) == IF b THEN "true" ELSE "false"

(***************************************************************************)
(* The MinHook engine, one instance per slot of switch_globals.            *)
(***************************************************************************)
\* the trampoline MH_CreateHook allocates for a target
Trampoline(slot, target) == 256 + 64 * slot + target

\* MH_Initialize on an instance: its status, MH_OK or the error; the
\* allocation of the heap can fail
MH_Initialize(instance, heap_fails) ==
    IF instance.init THEN "MH_ERROR_ALREADY_INITIALIZED"
    ELSE IF heap_fails THEN "MH_ERROR_MEMORY_ALLOC"
    ELSE "MH_OK"

\* an engine that hooks a target as often as it is asked to
MH_CreateHook_again(instance, target, refused) ==
    IF ~instance.init THEN "MH_ERROR_NOT_INITIALIZED"
    ELSE IF refused THEN "MH_ERROR_UNSUPPORTED_FUNCTION"
    ELSE "MH_OK"

\* MH_CreateHook: the engine refuses a target that is hooked in this instance
\* already, and one that it cannot patch
MH_CreateHook(instance, target, refused) ==
    IF ~instance.init THEN "MH_ERROR_NOT_INITIALIZED"
    ELSE IF target \in DOMAIN instance.hooks THEN "MH_ERROR_ALREADY_CREATED"
    ELSE IF refused THEN "MH_ERROR_UNSUPPORTED_FUNCTION"
    ELSE "MH_OK"

\* MH_QueueEnableHook (target)
MH_QueueEnableHook(instance, target) ==
    IF ~instance.init THEN "MH_ERROR_NOT_INITIALIZED"
    ELSE IF target \notin DOMAIN instance.hooks THEN "MH_ERROR_NOT_CREATED"
    ELSE "MH_OK"

created(instance, slot, target, detour) ==
    [instance EXCEPT !.hooks =
        [t \in DOMAIN instance.hooks \cup {target} |->
            IF t = target
            THEN [detour |-> detour, trampoline |-> Trampoline(slot, target),
                  enabled |-> FALSE, queued |-> FALSE]
            ELSE instance.hooks[t]]]

queued(instance, target, enable) ==
    [instance EXCEPT !.hooks[target].queued = enable]

(***************************************************************************)
(* sseh_profile and sseh_init.                                             *)
(***************************************************************************)
sseh_profile(id, profile) ==
    /\ Call(id, [profile |-> profile])
    /\ out' = NoOut
    /\ IF profile \in DOMAIN sseh_profiles
       THEN /\ cur' = sseh_profiles[profile]
            /\ ret' = "true"
            /\ UNCHANGED <<sseh_json, sseh_profiles, sseh_error, mh, alive>>
       ELSE LET size == Cardinality(DOMAIN sseh_profiles)
            IN  /\ cur' = size
                /\ \E heap_fails \in BOOLEAN :
                     LET status == MH_Initialize(mh[size], heap_fails)
                         r == assign(sseh_json, <<K_profiles, profile>>, JNum(size))
                     IN  IF status # "MH_OK"
                         THEN /\ sseh_error' = "sseh_profile MH_Initialize " \o status
                              /\ ret' = "false"
                              /\ UNCHANGED <<sseh_json, sseh_profiles, mh, alive>>
                         ELSE /\ mh' = [mh EXCEPT ![size].init = TRUE]
                              /\ sseh_error' = ""
                              /\ sseh_json' = r.j
                              /\ UNCHANGED alive
                              /\ IF r.ok
                                 THEN /\ sseh_profiles' =
                                           [p \in DOMAIN sseh_profiles \cup {profile} |->
                                               IF p = profile THEN size
                                               ELSE sseh_profiles[p]]
                                      /\ ret' = "true"
                                 ELSE \* type_error leaves the function
                                      /\ ret' = "exception"
                                      /\ UNCHANGED sseh_profiles

SsehInit == sseh_profile("sseh_init", <<>>)

SsehProfile == \E profile \in ProfileNames : sseh_profile("sseh_profile", profile)

(***************************************************************************)
(* sseh_find_address, sseh_find_target, sseh_map_name.                     *)
(***************************************************************************)
\* GetModuleHandle (module) and GetProcAddress (h, name)
sseh_find_address(module, name) ==
    IF module = HostExports.module /\ name = HostExports.name
    THEN [ok |-> TRUE, address |-> HostExports.address]
    ELSE [ok |-> FALSE, address |-> 0]

S_map_ == <<"/", "m", "a", "p", "/">>
S_target_ == <<"/", "t", "a", "r", "g", "e", "t">>

\* sseh_find_target that searches "function@module" in the process, as
\* sseh_detour does
sseh_find_target_resolving(json, lib, name) ==
    LET r == at_text(json, S_map_ \o name \o S_target_)
        v == addrlib_find(lib, name)
        module == IF \E i \in 1..Len(name) : name[i] = "@"
                  THEN CHOOSE i \in 1..Len(name) :
                          name[i] = "@" /\ \A k \in 1..(i - 1) : name[k] # "@"
                  ELSE 0
        a == sseh_find_address(SubSeq(name, module + 1, Len(name)),
                               SubSeq(name, 1, module - 1))
    IN  IF module # 0 /\ a.ok
        THEN [ok |-> TRUE, target |-> a.address, error |-> ""]
        ELSE IF r.ok /\ is_pointer(r.j)
        THEN [ok |-> TRUE, target |-> pointer_value(r.j), error |-> ""]
        ELSE IF v # 0
        THEN [ok |-> TRUE, target |-> v, error |-> ""]
        ELSE [ok |-> FALSE, target |-> 0, error |-> "sseh_find_target"]

\* sseh_find_target that asks the address library first
sseh_find_target_library_first(json, lib, name) ==
    LET r == at_text(json, S_map_ \o name \o S_target_)
        v == addrlib_find(lib, name)
    IN  IF v # 0
        THEN [ok |-> TRUE, target |-> v, error |-> ""]
        ELSE IF r.ok /\ is_pointer(r.j)
        THEN [ok |-> TRUE, target |-> pointer_value(r.j), error |-> ""]
        ELSE [ok |-> FALSE, target |-> 0,
              error |-> "sseh_find_target " \o
                        (IF r.ok THEN "target not a pointer" ELSE "json exception")]

\* the registry first, then the address library
sseh_find_target(json, lib, name) ==
    LET r == at_text(json, S_map_ \o name \o S_target_)
        v == addrlib_find(lib, name)
    IN  IF r.ok /\ is_pointer(r.j)
        THEN [ok |-> TRUE, target |-> pointer_value(r.j), error |-> ""]
        ELSE IF v # 0
        THEN [ok |-> TRUE, target |-> v, error |-> ""]
        ELSE [ok |-> FALSE, target |-> 0,
              error |-> "sseh_find_target " \o
                        (IF r.ok THEN "target not a pointer" ELSE "json exception")]

SsehFindTarget ==
    \E name \in Names :
        LET r == sseh_find_target(sseh_json, addrlib, name)
        IN  /\ Call("sseh_find_target", [name |-> name])
            /\ ret' = Bool(r.ok)
            /\ out' = [target |-> r.target]
            /\ sseh_error' = r.error
            /\ UNCHANGED <<sseh_json, sseh_profiles, mh, cur, alive>>

\* sseh_map_name as sseh_map_hook was: a name that exists is refused
sseh_map_name_refusing(json, lib, name, address) ==
    LET f == sseh_find_target(json, lib, name)
        r == assign(json, <<K_map, name, K_target>>, JStr(hex_string(address)))
    IN  IF f.ok
        THEN [ret |-> FALSE, json |-> json,
              error |-> "sseh_map_name name already exists"]
        ELSE [ret |-> r.ok, json |-> r.j, error |-> ""]

\* sseh_map_name without the comparison of the targets: the last call wins
sseh_map_name_overwriting(json, lib, name, address) ==
    LET r == assign(json, <<K_map, name, K_target>>, JStr(hex_string(address)))
    IN  [ret |-> r.ok, json |-> r.j, error |-> ""]

\* the result of sseh_map_name: what it returns, the document and the error
sseh_map_name(json, lib, name, address) ==
    LET f == sseh_find_target(json, lib, name)
        r == assign(json, <<K_map, name, K_target>>, JStr(hex_string(address)))
    IN  IF f.ok
        THEN IF f.target = address
             THEN [ret |-> TRUE, json |-> json, error |-> ""]
             ELSE [ret |-> FALSE, json |-> json,
                   error |-> "sseh_map_name target already different"]
        ELSE IF r.ok
             THEN [ret |-> TRUE, json |-> r.j, error |-> ""]
             ELSE [ret |-> FALSE, json |-> r.j, error |-> "sseh_map_name type_error"]

SsehMapName ==
    \E name \in Names, address \in Addrs :
        LET r == sseh_map_name(sseh_json, addrlib, name, address)
        IN  /\ Call("sseh_map_name", [name |-> name, address |-> address])
            /\ ret' = Bool(r.ret)
            /\ out' = NoOut
            /\ sseh_json' = r.json
            /\ sseh_error' = r.error
            /\ UNCHANGED <<sseh_profiles, mh, cur, alive>>

(***************************************************************************)
(* sseh_detour.                                                            *)
(***************************************************************************)
\* std::strchr (name, '@'): the index of the first '@', or 0
strchr_at(name) ==
    IF \E i \in 1..Len(name) : name[i] = "@"
    THEN CHOOSE i \in 1..Len(name) :
            name[i] = "@" /\ \A k \in 1..(i - 1) : name[k] # "@"
    ELSE 0

\* a sseh_detour that looks every name up with sseh_find_target
detour_target_registry_only(json, lib, name) ==
    LET f == sseh_find_target(json, lib, name)
    IN  [ok |-> f.ok, target |-> f.target, error |-> f.error]

\* the target of a detour: "function@module" is searched in the process,
\* every other name is looked up with sseh_find_target
detour_target(json, lib, name) ==
    LET module == strchr_at(name)
        a == sseh_find_address(SubSeq(name, module + 1, Len(name)),
                               SubSeq(name, 1, module - 1))
        f == sseh_find_target(json, lib, name)
    IN  IF module # 0
        THEN [ok |-> a.ok, target |-> a.address, error |-> ""]
        ELSE [ok |-> f.ok, target |-> f.target, error |-> f.error]

\* a record whose "original" is the detour itself
detour_record_unlinked(json, name, target, detour, trampoline) ==
    LET s2 == assign(json, <<K_map, name, K_target>>, JStr(hex_string(target)))
        s3 == assign(s2.j, <<K_map, name, K_detours, hex_string(detour)>>,
                     JObj(K_original :> JStr(hex_string(detour))))
    IN  [ok |-> s2.ok /\ s3.ok, j |-> s3.j]

\* the entry of the name after the detour is written down:
\*   auto& json = sseh_json["map"][name];
\*   json["target"] = hex_string (target);
\*   json["detours"][hex_string (detour)] = { { "original", ... } };
\* each line can throw type_error, and what the lines before it wrote stays
detour_record(json, name, target, detour, trampoline) ==
    LET e == get_unchecked(json, <<K_map, name>>)
        s1 == assign(json, <<K_map, name>>, e.j)
        s2 == assign(s1.j, <<K_map, name, K_target>>, JStr(hex_string(target)))
        s3 == assign(s2.j, <<K_map, name, K_detours, hex_string(detour)>>,
                     JObj(K_original :> JStr(hex_string(trampoline))))
    IN  IF ~e.ok \/ ~s1.ok THEN [ok |-> FALSE, j |-> json]
        ELSE IF ~s2.ok THEN [ok |-> FALSE, j |-> s1.j]
        ELSE IF ~s3.ok THEN [ok |-> FALSE, j |-> s2.j]
        ELSE [ok |-> TRUE, j |-> s3.j]

\* the engine refuses the target when refused
sseh_detour(name, detour, refused) ==
    LET t == detour_target(sseh_json, addrlib, name)
        status == MH_CreateHook(mh[cur], t.target, refused)
        trampoline == Trampoline(cur, t.target)
        w == detour_record(sseh_json, name, t.target, detour, trampoline)
    IN  /\ Call("sseh_detour", [name |-> name, detour |-> detour])
        /\ UNCHANGED <<sseh_profiles, cur, alive>>
        /\ IF ~t.ok
           THEN /\ ret' = "false" /\ out' = NoOut
                /\ sseh_error' = t.error
                /\ UNCHANGED <<sseh_json, mh>>
           ELSE IF status # "MH_OK"
           THEN /\ ret' = "false" /\ out' = NoOut
                /\ sseh_error' = "sseh_detour MH_CreateHook " \o status
                /\ UNCHANGED <<sseh_json, mh>>
           ELSE \* MH_QueueEnableHook of the hook just created succeeds
                /\ mh' = [mh EXCEPT ![cur] =
                            queued(created(mh[cur], cur, t.target, detour),
                                   t.target, TRUE)]
                /\ sseh_json' = w.j
                /\ IF w.ok
                   THEN /\ ret' = "true"
                        /\ out' = [original |-> trampoline]
                        /\ sseh_error' = ""
                   ELSE /\ ret' = "false" /\ out' = NoOut
                        /\ sseh_error' = "sseh_detour type_error"

SsehDetour ==
    \E name \in Names, detour \in DetourAddrs, refused \in BOOLEAN :
        sseh_detour(name, detour, refused)

(***************************************************************************)
(* sseh_enable, sseh_disable, sseh_enable_all, sseh_disable_all,           *)
(* sseh_apply, sseh_uninit and sseh_last_error.                            *)
(***************************************************************************)
\* MH_QueueDisableHook (target)
MH_QueueDisableHook(instance, target) ==
    IF ~instance.init THEN "MH_ERROR_NOT_INITIALIZED"
    ELSE IF target \notin DOMAIN instance.hooks THEN "MH_ERROR_NOT_CREATED"
    ELSE "MH_OK"

\* MH_QueueEnableHook (nullptr) and MH_QueueDisableHook (nullptr): all hooks
MH_QueueAllHooks(instance) ==
    IF ~instance.init THEN "MH_ERROR_NOT_INITIALIZED" ELSE "MH_OK"

queued_all(instance, enable) ==
    [instance EXCEPT !.hooks =
        [t \in DOMAIN instance.hooks |-> [instance.hooks[t] EXCEPT !.queued = enable]]]

\* MH_ApplyQueued: every hook becomes what it is queued for, unless the
\* code of a target cannot be written
MH_ApplyQueued(instance, protect_fails) ==
    IF ~instance.init THEN "MH_ERROR_NOT_INITIALIZED"
    ELSE IF protect_fails /\ \E t \in DOMAIN instance.hooks :
                                instance.hooks[t].queued # instance.hooks[t].enabled
    THEN "MH_ERROR_MEMORY_PROTECT"
    ELSE "MH_OK"

applied(instance) ==
    [instance EXCEPT !.hooks =
        [t \in DOMAIN instance.hooks |->
            [instance.hooks[t] EXCEPT !.enabled = instance.hooks[t].queued]]]

\* MH_Uninitialize: the hooks are disabled and forgotten, unless the code of
\* a target that is enabled cannot be written
MH_Uninitialize(instance, protect_fails) ==
    IF ~instance.init THEN "MH_ERROR_NOT_INITIALIZED"
    ELSE IF protect_fails /\ \E t \in DOMAIN instance.hooks : instance.hooks[t].enabled
    THEN "MH_ERROR_MEMORY_PROTECT"
    ELSE "MH_OK"

uninitialized == [init |-> FALSE, hooks |-> NoHooks]

\* an engine without the switch of globals: one state for all profiles
on_every_instance(engines, slot, instance) ==
    [s \in DOMAIN engines |-> instance]

\* switch_globals (slot) makes the functions of the engine work on the
\* instance of the slot, and on no other
on_selected(engines, slot, instance) ==
    [engines EXCEPT ![slot] = instance]

\* queueing without a look at what sseh_find_target returned
queue_hook_blind(id, what, name, enable) ==
    LET f == sseh_find_target(sseh_json, addrlib, name)
        status == IF enable THEN MH_QueueEnableHook(mh[cur], f.target)
                  ELSE MH_QueueDisableHook(mh[cur], f.target)
    IN  /\ Call(id, [name |-> name])
        /\ out' = NoOut
        /\ UNCHANGED <<sseh_json, sseh_profiles, cur, alive>>
        /\ IF status # "MH_OK"
           THEN /\ ret' = "false"
                /\ sseh_error' = id \o " " \o what \o " " \o status
                /\ UNCHANGED mh
           ELSE /\ ret' = "true"
                /\ sseh_error' = ""
                /\ mh' = on_selected(mh, cur, queued(mh[cur], f.target, enable))

\* sseh_enable and sseh_disable: the target of the name is queued
queue_hook(id, what, name, enable) ==
    LET f == sseh_find_target(sseh_json, addrlib, name)
        status == IF enable THEN MH_QueueEnableHook(mh[cur], f.target)
                  ELSE MH_QueueDisableHook(mh[cur], f.target)
    IN  /\ Call(id, [name |-> name])
        /\ out' = NoOut
        /\ UNCHANGED <<sseh_json, sseh_profiles, cur, alive>>
        /\ IF ~f.ok
           THEN /\ ret' = "false"
                /\ sseh_error' = f.error
                /\ UNCHANGED mh
           ELSE IF status # "MH_OK"
           THEN /\ ret' = "false"
                /\ sseh_error' = id \o " " \o what \o " " \o status
                /\ UNCHANGED mh
           ELSE /\ ret' = "true"
                /\ sseh_error' = ""
                /\ mh' = on_selected(mh, cur, queued(mh[cur], f.target, enable))

sseh_enable(name) == queue_hook("sseh_enable", "MH_QueueEnableHook", name, TRUE)

sseh_disable(name) == queue_hook("sseh_disable", "MH_QueueDisableHook", name, FALSE)

\* sseh_enable_all and sseh_disable_all
queue_all(id, what, enable) ==
    LET status == MH_QueueAllHooks(mh[cur])
    IN  /\ Call(id, NoOut)
        /\ out' = NoOut
        /\ UNCHANGED <<sseh_json, sseh_profiles, cur, alive>>
        /\ IF status # "MH_OK"
           THEN /\ ret' = "false"
                /\ sseh_error' = id \o " " \o what \o " " \o status
                /\ UNCHANGED mh
           ELSE /\ ret' = "true"
                /\ sseh_error' = ""
                /\ mh' = on_selected(mh, cur, queued_all(mh[cur], enable))

sseh_enable_all == queue_all("sseh_enable_all", "MH_QueueEnableHook", TRUE)

sseh_disable_all == queue_all("sseh_disable_all", "MH_QueueDisableHook", FALSE)

sseh_apply ==
    \E protect_fails \in BOOLEAN :
        LET status == MH_ApplyQueued(mh[cur], protect_fails)
        IN  /\ Call("sseh_apply", NoOut)
            /\ out' = NoOut
            /\ UNCHANGED <<sseh_json, sseh_profiles, cur, alive>>
            /\ IF status # "MH_OK"
               THEN /\ ret' = "false"
                    /\ sseh_error' = "sseh_apply MH_ApplyQueued " \o status
                    /\ UNCHANGED mh
               ELSE /\ ret' = "true"
                    /\ sseh_error' = ""
                    /\ mh' = on_selected(mh, cur, applied(mh[cur]))

\* one turn of the loop of sseh_uninit: switch_globals, then call_minhook
\* (MH_Uninitialize), which clears sseh_error before it calls the engine
uninit_turn(st, slot, fails) ==
    LET status == MH_Uninitialize(st.mh[slot], slot \in fails)
    IN  [mh |-> IF status = "MH_OK"
                THEN on_selected(st.mh, slot, uninitialized) ELSE st.mh,
         cur |-> slot,
         error |-> IF status = "MH_OK" THEN ""
                   ELSE "sseh_uninit MH_Uninitialize " \o status,
         requests |-> Append(st.requests, [slot |-> slot, status |-> status])]

\* a loop that gives up at the first failure
RECURSIVE uninit_loop_stopping(_, _, _)
uninit_loop_stopping(slots, st, fails) ==
    IF slots = <<>> THEN st
    ELSE IF uninit_turn(st, Head(slots), fails).error # ""
    THEN uninit_turn(st, Head(slots), fails)
    ELSE uninit_loop_stopping(Tail(slots), uninit_turn(st, Head(slots), fails), fails)

\* for (auto const& p: sseh_profiles): the slots in the order of the names
RECURSIVE uninit_loop(_, _, _)
uninit_loop(slots, st, fails) ==
    IF slots = <<>> THEN st
    ELSE uninit_loop(Tail(slots), uninit_turn(st, Head(slots), fails), fails)

\* the slots of the profiles, in the order std::map iterates over the names
profile_slots(profiles) ==
    [i \in 1..Cardinality(DOMAIN profiles) |-> profiles[sorted(DOMAIN profiles)[i]]]

sseh_uninit ==
    \E fails \in SUBSET Slots :
        LET r == uninit_loop(profile_slots(sseh_profiles),
                             [mh |-> mh, cur |-> cur, error |-> sseh_error,
                              requests |-> <<>>],
                             fails)
        IN  /\ Call("sseh_uninit", NoOut)
            /\ ret' = "void"
            /\ out' = [requests |-> r.requests]
            /\ mh' = r.mh
            /\ cur' = r.cur
            /\ sseh_error' = r.error
            /\ UNCHANGED <<sseh_json, sseh_profiles, alive>>

\* what GetLastError can return: nothing, or some error of the system
OsErrors == {0, 5}

\* the message sseh_last_error gives: the error of the library, or else the
\* one of the system, or else nothing
last_error(error, err) ==
    IF error # "" THEN error
    ELSE IF err = 0 THEN ""
    ELSE "format_utf8message"

sseh_last_error ==
    \E err \in OsErrors :
        /\ Call("sseh_last_error", NoOut)
        /\ ret' = "void"
        /\ out' = [message |-> last_error(sseh_error, err)]
        /\ UNCHANGED <<sseh_json, sseh_profiles, sseh_error, mh, cur, alive>>

(***************************************************************************)
(* sseh_load, sseh_merge_patch, sseh_identify.                             *)
(* A text is [parsable |-> does nlohmann::json::parse accept it,           *)
(* json |-> the value it parses to].                                       *)
(***************************************************************************)
\* validate (j) and the swap, common to sseh_load and sseh_merge_patch: j
\* becomes the document when validate returns; a throw is caught by try_call
\* and an abort ends the process
Commit(id, j) ==
    \E outcome \in validate_outcomes(j, ndebug) :
        /\ ret' = (CASE outcome = "ok" -> "true"
                     [] outcome = "throw" -> "false"
                     [] outcome = "abort" -> "abort")
        /\ alive' = (outcome # "abort")
        /\ sseh_json' = IF outcome = "ok" THEN j ELSE sseh_json
        /\ sseh_error' = IF outcome = "throw" THEN id \o " validate" ELSE ""

\* a throw inside try_call
Caught(id, what) ==
    /\ ret' = "false"
    /\ sseh_error' = id \o " " \o what
    /\ UNCHANGED <<sseh_json, alive>>

\* filepath names a file that opens, whose content is the text, or it is
\* the text itself
sseh_load(file, text) ==
    /\ Call("sseh_load", [file |-> file, text |-> text])
    /\ out' = NoOut
    /\ UNCHANGED <<sseh_profiles, mh, cur>>
    /\ IF ~text.parsable
       THEN Caught("sseh_load", "parse_error")
       ELSE Commit("sseh_load", text.json)

sseh_merge_patch(text) ==
    LET j == patch(sseh_json, text.json, ndebug)
    IN  /\ Call("sseh_merge_patch", [text |-> text])
        /\ out' = NoOut
        /\ UNCHANGED <<sseh_profiles, mh, cur>>
        /\ IF ~text.parsable
           THEN Caught("sseh_merge_patch", "parse_error")
           ELSE IF j.st = "throw"
           THEN Caught("sseh_merge_patch", "patch")
           ELSE IF j.st = "abort"
           THEN /\ ret' = "abort" /\ alive' = FALSE
                /\ UNCHANGED <<sseh_json, sseh_error>>
           ELSE Commit("sseh_merge_patch", j.j)

\* identify without the convention for "/": RFC 6901 to the letter
identify_rfc6901(json, pointer) ==
    LET j == at_text(json, pointer)
    IN  IF j.ok THEN [ok |-> TRUE, json |-> dump(j.j, 0)]
        ELSE [ok |-> FALSE, json |-> <<>>]

\* what sseh_identify reports for a pointer: the pointer "/" stands for the
\* whole document, and the value found is dumped with an indent of 4
identify(json, pointer) ==
    LET j == at_text(json, IF pointer = <<"/">> THEN <<>> ELSE pointer)
    IN  IF j.ok THEN [ok |-> TRUE, json |-> dump(j.j, 0)]
        ELSE [ok |-> FALSE, json |-> <<>>]

sseh_identify(pointer) ==
    LET r == identify(sseh_json, pointer)
    IN  /\ Call("sseh_identify", [pointer |-> pointer])
        /\ UNCHANGED <<sseh_json, sseh_profiles, mh, cur, alive>>
        /\ ret' = Bool(r.ok)
        /\ out' = IF r.ok THEN [json |-> r.json] ELSE NoOut
        /\ sseh_error' = IF r.ok THEN "" ELSE "sseh_identify json exception"

(***************************************************************************)
(* The texts given to sseh_load and sseh_merge_patch, and the pointers     *)
(* given to sseh_identify.                                                 *)
(***************************************************************************)
A_0x10 == <<"0", "x", "1", "0">>
A_0x20 == <<"0", "x", "2", "0">>
A_0x30 == <<"0", "x", "3", "0">>
A_0x40 == <<"0", "x", "4", "0">>
A_16 == <<"1", "6">>
\* no address at all
A_z == <<"z">>
\* a numeral followed by something else
A_16z == <<"1", "6", "z">>

Text(j) == [parsable |-> TRUE, json |-> j]
Unparsable == [parsable |-> FALSE, json |-> JNull]

\* { "target": target }
Hook(target) == JObj(K_target :> target)
\* { "target": target, "detours": detours }
Detoured(target, detours) == JObj(K_target :> target @@ K_detours :> detours)
\* { "original": original }
Original(original) == JObj(K_original :> original)
\* { "map": map, "profiles": { "": 0 } }
Config(map) == JObj(K_map :> JObj(map) @@ K_profiles :> JObj(<<>> :> JNum(0)))

LoadTexts == {
    \* one hook, hexadecimal
    Text(Config(S_f :> Hook(JStr(A_0x10)))),
    \* two hooks of one target, written in decimal and in hexadecimal
    Text(Config(S_f :> Hook(JStr(A_16)) @@ S_g :> Hook(JStr(A_0x10)))),
    \* a hook with a detour
    Text(Config(S_f :> Detoured(JStr(A_0x10),
                                JObj(A_0x30 :> Original(JStr(A_0x40)))))),
    \* a hook without any field
    Text(Config(S_g :> JObj(NoMembers))),
    \* a target that is no address
    Text(Config(S_f :> Hook(JStr(A_z)))),
    \* a target that is a number
    Text(Config(S_f :> Hook(JNum(16)))),
    \* a target that begins like an address
    Text(Config(S_f :> Hook(JStr(A_16z)))),
    \* a detour key that is no address
    Text(Config(S_f :> Detoured(JStr(A_0x10),
                                JObj(A_z :> Original(JStr(A_0x40)))))),
    \* an original that is no address
    Text(Config(S_f :> Detoured(JStr(A_0x10),
                                JObj(A_0x30 :> Original(JStr(A_z)))))),
    \* a detour without original
    Text(Config(S_f :> Detoured(JStr(A_0x10), JObj(A_0x30 :> JObj(NoMembers))))),
    \* a document without "map"
    Text(JObj(K_profiles :> JObj(<<>> :> JNum(0)))),
    \* a hook of a name the address library knows, at another address
    Text(Config(S_k :> Hook(JStr(A_0x20)))),
    \* a hook and no "profiles"
    Text(JObj(K_map :> JObj(S_g :> Hook(JStr(A_0x20))))),
    \* "profiles" is no object
    Text(JObj(K_map :> JObj(NoMembers) @@ K_profiles :> JStr(A_z))),
    \* no JSON
    Unparsable }

P_map == <<"/", "m", "a", "p">>
P_map_f == P_map \o <<"/", "f">>
P_map_g == P_map \o <<"/", "g">>
P_map_f_target == P_map_f \o S_target_
P_map_g_target == P_map_g \o S_target_

Operation(o, path, value) == [op |-> o, path |-> path, value |-> value]
Patch(ops) == Text([array |-> TRUE, ops |-> ops])

PatchTexts == {
    Patch(<<Operation("add", P_map_g_target, JStr(A_0x20))>>),
    Patch(<<Operation("add", P_map_g_target, JStr(A_16))>>),
    Patch(<<Operation("add", P_map_g_target, JStr(A_z))>>),
    Patch(<<Operation("add", P_map_g, JObj(NoMembers))>>),
    Patch(<<Operation("add", P_map, JObj(NoMembers))>>),
    Patch(<<Operation("add", P_map_g_target, JStr(A_0x20)),
            Operation("test", P_map_g_target, JStr(A_0x10))>>),
    Patch(<<Operation("replace", P_map_f_target, JNum(16))>>),
    Patch(<<Operation("remove", P_map_f, JNull)>>),
    Patch(<<Operation("remove", P_map, JNull)>>),
    Patch(<<Operation("add", P_map_f_target \o <<"/", "x">>, JStr(A_0x20))>>),
    Patch(<<Operation("move", P_map_f, JNull)>>),
    \* a hook with a detour key that is no address
    Patch(<<Operation("add", P_map_g,
                      Detoured(JStr(A_0x20), JObj(A_z :> Original(JStr(A_0x40)))))>>),
    \* a JSON text that is no array
    Text([array |-> FALSE, ops |-> <<>>]),
    Unparsable }

Pointers == {<<"/">>, <<>>, P_map_f, P_map_f_target, P_map_g_target, <<"m", "a", "p">>}

SsehLoad == \E file \in BOOLEAN, text \in LoadTexts : sseh_load(file, text)

SsehMergePatch == \E text \in PatchTexts : sseh_merge_patch(text)

SsehIdentify == \E pointer \in Pointers : sseh_identify(pointer)

Next ==
    \/ SsehInit
    \/ SsehProfile
    \/ SsehFindTarget
    \/ SsehMapName
    \/ SsehDetour
    \/ SsehLoad
    \/ SsehMergePatch
    \/ SsehIdentify

Spec == Init /\ [][Next]_vars

(***************************************************************************)
(* The hooking operations, followed for more calls: profiles, detours,     *)
(* queues, apply and uninit.                                               *)
(***************************************************************************)
\* names given to sseh_enable and sseh_disable
HookNames == {S_k, S_sm}

\* "function@module" names whose function, or whose module, is not there
S_tm == <<"t", "@", "m">>
S_sn == <<"s", "@", "n">>
Unexported == {S_tm, S_sn}

SsehDetourUnexported ==
    \E name \in Unexported, detour \in DetourAddrs, refused \in BOOLEAN :
        sseh_detour(name, detour, refused)

\* another detour function, of a second client
SecondDetour == 64

SsehDetourSecond ==
    \E name \in HookNames : sseh_detour(name, SecondDetour, FALSE)

\* a document whose entry "s@m" is a text: validate passes over an entry
\* without "target"
EntryText == Text(JObj(K_map :> JObj(S_sm :> JStr(A_z))))

SsehLoadEntryText == sseh_load(FALSE, EntryText)

SsehEnable == \E name \in HookNames : sseh_enable(name)

SsehDisable == \E name \in HookNames : sseh_disable(name)

HookingInit == Loaded /\ limit = MaxEngineCalls

HookingNext ==
    \/ SsehInit
    \/ SsehProfile
    \/ SsehDetour
    \/ SsehDetourUnexported
    \/ SsehDetourSecond
    \/ SsehLoadEntryText
    \/ SsehEnable
    \/ SsehDisable
    \/ sseh_enable_all
    \/ sseh_disable_all
    \/ sseh_apply
    \/ sseh_uninit
    \/ sseh_last_error

Hooking == HookingInit /\ [][HookingNext]_vars

(***************************************************************************)
(* The registry as the claims see it.                                      *)
(***************************************************************************)
\* the "map" section of a document, as a function from names to entries
Map(json) ==
    IF contains(json, K_map) /\ is_object(json.o[K_map])
    THEN json.o[K_map].o ELSE NoMembers

\* the text is a numeral and nothing else: decimal, or hexadecimal after 0x
IsDecimal(s) == s # <<>> /\ \A i \in 1..Len(s) : IsDigit(s[i], 10)
IsHex(s) ==
    /\ Len(s) >= 3 /\ s[1] = "0" /\ s[2] = "x"
    /\ \A i \in 3..Len(s) : IsDigit(s[i], 16)

\* the address an entry is mapped to
HasTarget(json, name) ==
    /\ name \in DOMAIN Map(json)
    /\ contains(Map(json)[name], K_target)
    /\ is_string(Map(json)[name].o[K_target])
    /\ stoull(Map(json)[name].o[K_target].s).ok

TargetOf(json, name) == stoull(Map(json)[name].o[K_target].s).v

\* a value that cannot be read as an address
NotAddress(j) == ~is_string(j) \/ ~stoull(j.s).ok

\* the "detours" of an entry, as a function from keys to patch records
DetoursOf(entry) ==
    IF contains(entry, K_detours) /\ is_object(entry.o[K_detours])
    THEN entry.o[K_detours].o ELSE NoMembers

(***************************************************************************)
(* C1: sseh_map_name is idempotent: when the name is mapped to that very   *)
(* address already, the call returns success and the document after it is  *)
(* the document before it.                                                 *)
(***************************************************************************)
C1_MapNameIdempotent ==
    (/\ op = "sseh_map_name"
     /\ HasTarget(prev_json, arg.name)
     /\ TargetOf(prev_json, arg.name) = arg.address)
    => (ret = "true" /\ sseh_json = prev_json)

\* a name mapped in decimal by a loaded document is mapped again
C1_Witness ==
    /\ op = "sseh_map_name"
    /\ HasTarget(prev_json, arg.name)
    /\ TargetOf(prev_json, arg.name) = arg.address
    /\ Map(prev_json)[arg.name].o[K_target] # JStr(hex_string(arg.address))
    /\ ret = "true"

C3_MapNameOtherName ==
    (/\ op = "sseh_map_name"
     /\ \E other \in DOMAIN Map(prev_json) \ {arg.name} :
            /\ HasTarget(prev_json, other)
            /\ TargetOf(prev_json, other) = arg.address)
    => (ret = "false" /\ DOMAIN Map(sseh_json) = DOMAIN Map(prev_json))

(***************************************************************************)
(* C4: in every reachable state no two entries of the registry have the    *)
(* same target address.                                                    *)
(***************************************************************************)
C4_TargetsUnique ==
    \A n1, n2 \in DOMAIN Map(sseh_json) :
        (/\ n1 # n2
         /\ HasTarget(sseh_json, n1)
         /\ HasTarget(sseh_json, n2))
        => TargetOf(sseh_json, n1) # TargetOf(sseh_json, n2)

(***************************************************************************)
(* C5: sseh_load is all or nothing: when the text is no JSON, or a hook    *)
(* target, a detour key or a detour original of it is no address, the call *)
(* returns failure and the document is the one from before the call.       *)
(***************************************************************************)
\* an entry with a target, detour key or original that is no address
BadEntry(entry) ==
    /\ contains(entry, K_target)
    /\ \/ NotAddress(entry.o[K_target])
       \/ \E key \in DOMAIN DetoursOf(entry) :
            \/ ~stoull(key).ok
            \/ /\ contains(DetoursOf(entry)[key], K_original)
               /\ NotAddress(DetoursOf(entry)[key].o[K_original])

BadText(text) ==
    \/ ~text.parsable
    \/ \E name \in DOMAIN Map(text.json) : BadEntry(Map(text.json)[name])

ValidEntry(entry) ==
    /\ is_object(entry)
    /\ contains(entry, K_target) => ~NotAddress(entry.o[K_target])
    /\ contains(entry, K_detours) => is_object(entry.o[K_detours])
    /\ \A key \in DOMAIN DetoursOf(entry) :
          /\ stoull(key).ok
          /\ contains(DetoursOf(entry)[key], K_original)
          /\ ~NotAddress(DetoursOf(entry)[key].o[K_original])

ValidConfiguration(json) ==
    /\ is_object(json)
    /\ contains(json, K_map) => is_object(json.o[K_map])
    /\ \A name \in DOMAIN Map(json) : ValidEntry(Map(json)[name])

C6_LoadReplaces ==
    (op = "sseh_load" /\ arg.text.parsable /\ ValidConfiguration(arg.text.json))
    => (ret = "true" /\ sseh_json = arg.text.json)

(***************************************************************************)
(* C7: sseh_merge_patch copies, validates, then swaps: when the text is    *)
(* malformed, an operation fails, or the patched copy fails validation,    *)
(* the call returns failure and the document is unchanged; and the         *)
(* document is never the result of a part of the operations only.          *)
(***************************************************************************)
\* the operations applied one after another: the documents in between, and
\* whether one of the operations throws
RECURSIVE in_turn(_, _, _)
in_turn(result, ops, between) ==
    IF ops = <<>> THEN [st |-> "ok", last |-> result, between |-> between]
    ELSE LET r == apply_op(result, Head(ops))
         IN  IF r.st = "ok"
             THEN in_turn(r.j, Tail(ops), between \cup {result})
             ELSE [st |-> r.st, last |-> result, between |-> between \cup {result}]

Malformed(text) == ~text.parsable \/ ~text.json.array

PatchFails(json, text) ==
    \/ Malformed(text)
    \/ in_turn(json, text.json.ops, {}).st = "throw"
    \/ /\ in_turn(json, text.json.ops, {}).st = "ok"
       /\ validate(in_turn(json, text.json.ops, {}).last) = "throw"

C7_MergePatchSwaps ==
    (op = "sseh_merge_patch")
    => /\ PatchFails(prev_json, arg.text) => (ret = "false" /\ sseh_json = prev_json)
       /\ (~Malformed(arg.text) /\ sseh_json # prev_json)
            => sseh_json = in_turn(prev_json, arg.text.json.ops, {}).last

\* a patch whose first operation applies and whose second one fails
C7_Witness ==
    /\ op = "sseh_merge_patch"
    /\ ~Malformed(arg.text)
    /\ in_turn(prev_json, arg.text.json.ops, {}).st = "throw"
    /\ in_turn(prev_json, arg.text.json.ops, {}).between \ {prev_json} # {}
    /\ ret = "false"
    /\ sseh_json = prev_json

(***************************************************************************)
(* C8: sseh_merge_patch and sseh_identify round trip: after a successful   *)
(* patch that adds an address string at /map/X/target, sseh_identify of    *)
(* that pointer reports exactly that string; and a well formed patch whose *)
(* result is a valid configuration is accepted, the document being the     *)
(* patched one.                                                            *)
(***************************************************************************)
\* the patch is one "add" of an address string at the target of a hook
AddsTarget(text, pointer) ==
    /\ ~Malformed(text)
    /\ Len(text.json.ops) = 1
    /\ text.json.ops[1].op = "add"
    /\ text.json.ops[1].path = pointer
    /\ ~NotAddress(text.json.ops[1].value)

C8_RoundTrip ==
    (op = "sseh_merge_patch" /\ ret = "true")
    => \A pointer \in {P_map_f_target, P_map_g_target} :
          AddsTarget(arg.text, pointer)
          => /\ identify(sseh_json, pointer).ok
             /\ identify(sseh_json, pointer).json
                  = <<"\"">> \o arg.text.json.ops[1].value.s \o <<"\"">>

C8_Accepted ==
    (/\ op = "sseh_merge_patch"
     /\ ~Malformed(arg.text)
     /\ in_turn(prev_json, arg.text.json.ops, {}).st = "ok"
     /\ ValidConfiguration(in_turn(prev_json, arg.text.json.ops, {}).last))
    => (ret = "true" /\ sseh_json = in_turn(prev_json, arg.text.json.ops, {}).last)

C8_MergePatchIdentify == C8_RoundTrip /\ C8_Accepted

(***************************************************************************)
(* C9: validation accepts a target in each of three encodings, a decimal   *)
(* string, a 0x hexadecimal string and a JSON number, and rejects a target *)
(* that is none of them.                                                   *)
(***************************************************************************)
ThreeEncodings(j) ==
    \/ j.t = "number"
    \/ is_string(j) /\ (IsDecimal(j.s) \/ IsHex(j.s))

\* a configuration whose hooks have a target and nothing else
TargetsOnly(json) ==
    /\ is_object(json)
    /\ contains(json, K_map) /\ is_object(json.o[K_map])
    /\ \A name \in DOMAIN Map(json) :
          /\ is_object(Map(json)[name])
          /\ DOMAIN Map(json)[name].o = {K_target}

C9_ThreeEncodings ==
    (op = "sseh_load" /\ arg.text.parsable /\ TargetsOnly(arg.text.json))
    => (ret = "true" <=>
          \A name \in DOMAIN Map(arg.text.json) :
              ThreeEncodings(Map(arg.text.json)[name].o[K_target]))

(***************************************************************************)
(* C10: normalisation fills the defaults: after sseh_load or               *)
(* sseh_merge_patch has committed a hook entry it has "applied" false,     *)
(* "status" "new" and a collection of patches.                             *)
(***************************************************************************)
Normalized(entry) ==
    /\ contains(entry, K_applied) /\ entry.o[K_applied] = JBool(FALSE)
    /\ contains(entry, K_status) /\ entry.o[K_status] = JStr(<<"n", "e", "w">>)
    /\ contains(entry, K_detours) /\ is_object(entry.o[K_detours])

C10_DefaultsFilled ==
    (op \in {"sseh_load", "sseh_merge_patch"} /\ ret = "true" /\ sseh_json # prev_json)
    => \A name \in DOMAIN Map(sseh_json) \ DOMAIN Map(prev_json) :
            Normalized(Map(sseh_json)[name])

(***************************************************************************)
(* C11: a detour that is malformed is fatal, it is not pruned: when the    *)
(* document given to sseh_load, or the result of the patch given to        *)
(* sseh_merge_patch, has a hook with a valid target and a detour whose key *)
(* is no address, the call returns failure and the document is unchanged.  *)
(***************************************************************************)
\* a document has been parsed, or patched, and is about to be validated
Submitted ==
    \/ op = "sseh_load" /\ arg.text.parsable
    \/ /\ op = "sseh_merge_patch"
       /\ ~Malformed(arg.text)
       /\ in_turn(prev_json, arg.text.json.ops, {}).st = "ok"

Candidate ==
    IF op = "sseh_load" THEN arg.text.json
    ELSE in_turn(prev_json, arg.text.json.ops, {}).last

\* the detours of hooks with a valid target whose key is no address
MalformedDetours(json) ==
    {nk \in UNION {{<<name, key>> : key \in DOMAIN DetoursOf(Map(json)[name])} :
                        name \in DOMAIN Map(json)} :
        /\ contains(Map(json)[nk[1]], K_target)
        /\ ~NotAddress(Map(json)[nk[1]].o[K_target])
        /\ ~stoull(nk[2]).ok}

C11_MalformedDetourRejected ==
    (Submitted /\ MalformedDetours(Candidate) # {})
    => (ret = "false" /\ sseh_json = prev_json)

\* a patch that adds a hook with a malformed detour to a document with hooks
C11_Witness ==
    /\ op = "sseh_merge_patch" /\ Submitted
    /\ MalformedDetours(Candidate) # {}
    /\ Map(prev_json) # NoMembers
    /\ ret = "false"

\* C11 as it is stated: the call succeeds, the hook is committed and only
\* the malformed detour is absent from the document
C11_MalformedDetourPruned ==
    (Submitted /\ MalformedDetours(Candidate) # {})
    => /\ ret = "true"
       /\ \A nk \in MalformedDetours(Candidate) :
            /\ nk[1] \in DOMAIN Map(sseh_json)
            /\ nk[2] \notin DOMAIN DetoursOf(Map(sseh_json)[nk[1]])

(***************************************************************************)
(* C12: sseh_identify returns the text of the value the pointer leads to,  *)
(* "/" and the empty pointer standing for the whole document; when the     *)
(* pointer leads nowhere it returns failure with an error message; and it  *)
(* never changes the document.                                             *)
(***************************************************************************)
\* the reference tokens of the pointers that are well formed
PointerTokens ==
    <<"/">> :> <<>> @@ <<>> :> <<>> @@ P_map_f :> <<K_map, S_f>>
    @@ P_map_f_target :> <<K_map, S_f, K_target>>
    @@ P_map_g_target :> <<K_map, S_g, K_target>>

\* the value the tokens lead to, if there is one
RECURSIVE SubDocument(_, _)
SubDocument(json, tokens) ==
    IF tokens = <<>> THEN {json}
    ELSE IF is_object(json) /\ Head(tokens) \in DOMAIN json.o
    THEN SubDocument(json.o[Head(tokens)], Tail(tokens))
    ELSE {}

Addressed ==
    IF arg.pointer \in DOMAIN PointerTokens
    THEN SubDocument(prev_json, PointerTokens[arg.pointer])
    ELSE {}

C12_IdentifyResolves ==
    (op = "sseh_identify")
    => /\ sseh_json = prev_json
       /\ Addressed # {} =>
            /\ ret = "true"
            /\ \A j \in Addressed : out = [json |-> dump(j, 0)]
       /\ Addressed = {} =>
            (ret = "false" /\ sseh_error # "" /\ out = NoOut)

\* the whole of a document with hooks is asked for with "/"
C12_Witness ==
    /\ op = "sseh_identify" /\ arg.pointer = <<"/">>
    /\ Map(sseh_json) # NoMembers
    /\ ret = "true" /\ out = [json |-> dump(sseh_json, 0)]

(***************************************************************************)
(* C13: sseh_find_target does not search the process for a name of the     *)
(* form "function@module": such a name is found only when the registry has *)
(* an entry of that name with a target that is an address, or the address  *)
(* library knows it; otherwise the call fails, even though the module is   *)
(* loaded and exports the function.                                        *)
(***************************************************************************)
\* the name is function@module of a function the process exports
Exported(name) == name = HostExports.name \o <<"@">> \o HostExports.module

\* the address library has an address for the name
InLibrary(name) ==
    \E i \in 1..Len(addrlib.names), k \in 1..Len(addrlib.data) :
        /\ addrlib.names[i][1] = name
        /\ addrlib.data[k][1] = addrlib.names[i][2]
        /\ addrlib.data[k][2] # 0

C13_QualifiedNameNotSearched ==
    (op = "sseh_find_target" /\ Exported(arg.name))
    => (ret = "true" <=> (HasTarget(prev_json, arg.name) \/ InLibrary(arg.name)))

\* an exported function is asked for and is not found
C13_Witness ==
    /\ op = "sseh_find_target" /\ Exported(arg.name)
    /\ ~HasTarget(prev_json, arg.name)
    /\ ret = "false" /\ sseh_error # ""

\* C13 as it is stated: the exported function is found, whatever the
\* registry holds
C13_QualifiedNameResolved ==
    (op = "sseh_find_target" /\ Exported(arg.name))
    => (ret = "true" /\ out = [target |-> HostExports.address])

(***************************************************************************)
(* C14: the order in which sseh_find_target looks a name up: the target of *)
(* the registry whenever the registry has the name with a target that is   *)
(* an address, whatever the address library holds; the address of the      *)
(* library only when the registry has none; and when both have none, a     *)
(* failure whose message carries the error of the lookup in the registry.  *)
(***************************************************************************)
LibraryAddress(name) ==
    CHOOSE a \in Addrs :
        \E i \in 1..Len(addrlib.names), k \in 1..Len(addrlib.data) :
            /\ addrlib.names[i][1] = name
            /\ addrlib.data[k][1] = addrlib.names[i][2]
            /\ addrlib.data[k][2] = a

\* what the lookup in the registry complains about
RegistryError(json, name) ==
    IF /\ name \in DOMAIN Map(json)
       /\ contains(Map(json)[name], K_target)
    THEN "target not a pointer" ELSE "json exception"

Recorded(json, profile) ==
    IF /\ contains(json, K_profiles) /\ is_object(json.o[K_profiles])
       /\ profile \in DOMAIN json.o[K_profiles].o
    THEN {json.o[K_profiles].o[profile]}
    ELSE {}

C15_ProfileAllocates ==
    (op \in {"sseh_init", "sseh_profile"})
    => IF arg.profile \in DOMAIN prev_profiles
       THEN ret = "true" /\ mh = prev_mh /\ sseh_profiles = prev_profiles
       ELSE IF mh = prev_mh
       THEN /\ ret = "false"
            /\ sseh_profiles = prev_profiles
            /\ sseh_json = prev_json
       ELSE /\ ret = "true"
            /\ DOMAIN sseh_profiles = DOMAIN prev_profiles \cup {arg.profile}
            /\ \A p \in DOMAIN prev_profiles : sseh_profiles[p] = prev_profiles[p]
            /\ sseh_profiles[arg.profile] = Cardinality(DOMAIN prev_profiles)
            /\ \A p, q \in DOMAIN sseh_profiles :
                    sseh_profiles[p] = sseh_profiles[q] => p = q
            /\ Recorded(sseh_json, arg.profile) = {JNum(sseh_profiles[arg.profile])}

(***************************************************************************)
(* C16: once sseh_init has succeeded the default profile "" exists in      *)
(* every state: it is in sseh_profiles, and "profiles" in the document     *)
(* records it with the index sseh_profiles has for it.                     *)
(***************************************************************************)
C16_DefaultProfileExists ==
    (<<>> \in DOMAIN sseh_profiles)
    => Recorded(sseh_json, <<>>) = {JNum(sseh_profiles[<<>>])}

(***************************************************************************)
(* C17: sseh_uninit goes through all the profiles: for every profile it    *)
(* switches to the engine instance of the profile and asks it to           *)
(* uninitialize exactly once, whether or not the request for another       *)
(* profile has failed.                                                     *)
(***************************************************************************)
C17_UninitEveryProfile ==
    (op = "sseh_uninit")
    => /\ Len(out.requests) = Cardinality(DOMAIN sseh_profiles)
       /\ \A p \in DOMAIN sseh_profiles :
            Cardinality({i \in 1..Len(out.requests) :
                            out.requests[i].slot = sseh_profiles[p]}) = 1

\* two profiles, and the request for the first one fails
C17_Witness ==
    /\ op = "sseh_uninit"
    /\ Len(out.requests) = 2
    /\ out.requests[1].status # "MH_OK"
    /\ out.requests[2].status = "MH_OK"

(***************************************************************************)
(* C18: the errors of sseh_uninit are kept: when MH_Uninitialize has       *)
(* failed for at least one profile, sseh_last_error gives a message of     *)
(* that failure after sseh_uninit has returned, whichever profile it was   *)
(* and whatever happened to the profiles after it.                         *)
(***************************************************************************)
C18_UninitErrorReported ==
    (/\ op = "sseh_uninit"
     /\ \E i \in 1..Len(out.requests) : out.requests[i].status # "MH_OK")
    => \A err \in OsErrors :
          \E i \in 1..Len(out.requests) :
              /\ out.requests[i].status # "MH_OK"
              /\ last_error(sseh_error, err)
                   = "sseh_uninit MH_Uninitialize " \o out.requests[i].status

(***************************************************************************)
(* C19: the hooking operations work on the selected profile only: after    *)
(* sseh_detour, sseh_enable, sseh_disable, sseh_enable_all,                *)
(* sseh_disable_all or sseh_apply the engine instance of every other       *)
(* profile is what it was before the call.                                 *)
(***************************************************************************)
HookingOperations ==
    {"sseh_detour", "sseh_enable", "sseh_disable", "sseh_enable_all",
     "sseh_disable_all", "sseh_apply"}

C19_ScopedToProfile ==
    (op \in HookingOperations)
    => \A slot \in Slots \ {cur} : mh[slot] = prev_mh[slot]

\* the hooks of one profile are applied while another profile has a hook
\* that is queued and not applied
C19_Witness ==
    /\ op = "sseh_apply" /\ ret = "true"
    /\ mh[cur] # prev_mh[cur]
    /\ \E slot \in Slots \ {cur} :
          \E t \in DOMAIN mh[slot].hooks :
              mh[slot].hooks[t].queued /\ ~mh[slot].hooks[t].enabled

(***************************************************************************)
(* C20: one detour for a target in a profile: sseh_detour of a target that *)
(* has a detour in the selected profile fails; a detour of that target in  *)
(* another profile does not stand in the way, so that after sseh_profile   *)
(* of another profile the target can be detoured again.                    *)
(***************************************************************************)
\* the target the name of the last sseh_detour stands for
DetourTarget == detour_target(prev_json, addrlib, arg.name)

C20_OneDetourPerProfile ==
    (op = "sseh_detour" /\ DetourTarget.ok)
    => /\ DetourTarget.target \in DOMAIN prev_mh[cur].hooks
            => (ret = "false" /\ mh = prev_mh)
       /\ sseh_error = "sseh_detour MH_CreateHook MH_ERROR_ALREADY_CREATED"
            => DetourTarget.target \in DOMAIN prev_mh[cur].hooks

\* a target that has a detour in one profile gets a detour in another one
C20_Witness ==
    /\ op = "sseh_detour" /\ DetourTarget.ok /\ ret = "true"
    /\ DetourTarget.target \in DOMAIN mh[cur].hooks
    /\ \E slot \in Slots \ {cur} : DetourTarget.target \in DOMAIN prev_mh[slot].hooks

(***************************************************************************)
(* C21: sseh_apply keeps the profiles apart in the "applied" flag of a     *)
(* hook: a successful sseh_apply under a profile in which the hook has no  *)
(* detour leaves the flag as it was, and a successful sseh_apply under the *)
(* profile in which the hook was detoured makes the flag true.             *)
(***************************************************************************)
\* the document says that the hook of the name is applied
AppliedFlag(json, name) ==
    /\ name \in DOMAIN Map(json)
    /\ contains(Map(json)[name], K_applied)
    /\ Map(json)[name].o[K_applied] = JBool(TRUE)

\* the hook of the name was detoured in the selected profile, and waits for
\* sseh_apply
DetouredHere(name) ==
    /\ HasTarget(prev_json, name)
    /\ TargetOf(prev_json, name) \in DOMAIN prev_mh[cur].hooks
    /\ prev_mh[cur].hooks[TargetOf(prev_json, name)].queued

C21_ApplyProfileIsolation ==
    (op = "sseh_apply" /\ ret = "true")
    => \A name \in DOMAIN Map(sseh_json) :
          IF DetouredHere(name)
          THEN AppliedFlag(sseh_json, name)
          ELSE AppliedFlag(sseh_json, name) = AppliedFlag(prev_json, name)

(***************************************************************************)
(* The revision that kept the hooks in a vector: sseh_map_hook,            *)
(* sseh_detour, sseh_hook_status and sseh_enable_hooks on one engine.      *)
(***************************************************************************)
\* an API call of that revision begins
EarlyCall(name, argument) ==
    /\ calls < limit
    /\ calls' = calls + 1
    /\ op' = name
    /\ arg' = argument
    /\ prev_hooks' = hooks
    /\ prev_mh' = mh
    /\ UNCHANGED <<sseh_json, sseh_profiles, cur, addrlib, ndebug, alive,
                   prev_json, prev_profiles, limit, caller, own, pending,
                   prev_cur>>

\* names and detours given to that revision
EarlyNames == {S_f, S_g}
EarlyDetours == {48, 64}

sseh_init_v1 ==
    \E heap_fails \in BOOLEAN :
        LET status == MH_Initialize(mh[0], heap_fails)
        IN  /\ EarlyCall("sseh_init", NoOut)
            /\ out' = NoOut
            /\ UNCHANGED <<hooks, hook_names, hook_addresses>>
            /\ IF status # "MH_OK"
               THEN /\ ret' = "false"
                    /\ sseh_error' = "sseh_init MH_Initialize " \o status
                    /\ UNCHANGED mh
               ELSE /\ ret' = "true"
                    /\ sseh_error' = ""
                    /\ mh' = [mh EXCEPT ![0].init = TRUE]

sseh_uninit_v1 ==
    \E protect_fails \in BOOLEAN :
        LET status == MH_Uninitialize(mh[0], protect_fails)
        IN  /\ EarlyCall("sseh_uninit", NoOut)
            /\ ret' = "void"
            /\ out' = NoOut
            /\ UNCHANGED <<hooks, hook_names, hook_addresses>>
            /\ IF status # "MH_OK"
               THEN /\ sseh_error' = "sseh_uninit MH_Uninitialize " \o status
                    /\ UNCHANGED mh
               ELSE /\ sseh_error' = ""
                    /\ mh' = [mh EXCEPT ![0] = uninitialized]

\* hook h = {}; h.applied = false; h.status = "no detour"; ...
new_hook(name, address) ==
    [applied |-> FALSE, status |-> "no detour", name |-> name,
     target |-> address, patches |-> <<>>]

sseh_map_hook ==
    \E name \in EarlyNames, address \in Addrs :
        /\ EarlyCall("sseh_map_hook", [name |-> name, address |-> address])
        /\ out' = NoOut
        /\ UNCHANGED mh
        /\ IF name \in DOMAIN hook_names
           THEN /\ ret' = "false"
                /\ sseh_error' = "sseh_map_hook name already exists"
                /\ UNCHANGED <<hooks, hook_names, hook_addresses>>
           ELSE IF address \in DOMAIN hook_addresses
           THEN /\ ret' = "false"
                /\ sseh_error' = "sseh_map_hook address already exists"
                /\ UNCHANGED <<hooks, hook_names, hook_addresses>>
           ELSE /\ ret' = "true"
                /\ sseh_error' = ""
                /\ hooks' = Append(hooks, new_hook(name, address))
                /\ hook_names' = (name :> Len(hooks)) @@ hook_names
                /\ hook_addresses' = (address :> Len(hooks)) @@ hook_addresses

\* hooks.at (index)
hook_at(hs, index) == hs[index + 1]

\* what sseh_hook_status reports for a name
hook_status(hs, names, name) ==
    IF name \notin DOMAIN names
    THEN [ok |-> FALSE, applied |-> FALSE, status |-> ""]
    ELSE [ok |-> TRUE, applied |-> hook_at(hs, names[name]).applied,
          status |-> hook_at(hs, names[name]).status]

sseh_hook_status ==
    \E name \in EarlyNames :
        LET r == hook_status(hooks, hook_names, name)
        IN  /\ EarlyCall("sseh_hook_status", [name |-> name])
            /\ UNCHANGED <<mh, hooks, hook_names, hook_addresses>>
            /\ ret' = Bool(r.ok)
            /\ out' = IF r.ok THEN [applied |-> r.applied, status |-> r.status]
                      ELSE NoOut
            /\ sseh_error' = IF r.ok THEN ""
                             ELSE "sseh_hook_status hook name not found"

\* a sseh_detour that marks the hook as applied at once
detoured_applied(h, address, trampoline) ==
    [h EXCEPT !.patches = Append(@, [detour |-> address, original |-> trampoline]),
              !.status = "detoured",
              !.applied = TRUE]

\* h.patches.push_back (p); h.status = "detoured";
detoured(h, address, trampoline) ==
    [h EXCEPT !.patches = Append(@, [detour |-> address, original |-> trampoline]),
              !.status = "detoured"]

sseh_detour_v1 ==
    \E name \in EarlyNames, address \in EarlyDetours, refused \in BOOLEAN :
        /\ EarlyCall("sseh_detour", [name |-> name, detour |-> address])
        /\ out' = NoOut
        /\ UNCHANGED <<hook_names, hook_addresses>>
        /\ IF name \notin DOMAIN hook_names
           THEN /\ ret' = "false"
                /\ sseh_error' = "sseh_detour hook name not found"
                /\ UNCHANGED <<hooks, mh>>
           ELSE LET i == hook_names[name] + 1
                    h == hooks[i]
                    status == MH_CreateHook(mh[0], h.target, refused)
                    error == "sseh_detour MH_CreateHook " \o status
                IN  IF \E p \in 1..Len(h.patches) : h.patches[p].detour = address
                    THEN /\ ret' = "false"
                         /\ sseh_error' = "sseh_detour detour already exists"
                         /\ UNCHANGED <<hooks, mh>>
                    ELSE IF status # "MH_OK"
                    THEN /\ ret' = "false"
                         /\ sseh_error' = error
                         /\ hooks' = [hooks EXCEPT ![i].status = error]
                         /\ UNCHANGED mh
                    ELSE /\ ret' = "true"
                         /\ sseh_error' = ""
                         /\ hooks' = [hooks EXCEPT ![i] =
                                        detoured(h, address, Trampoline(0, h.target))]
                         /\ mh' = [mh EXCEPT ![0] =
                                     created(mh[0], 0, h.target, address)]

\* MH_ApplyQueued (logger): what the engine reports to the logger, target by
\* target. It works on the hooks that are not what they are queued for, in
\* the order of the targets; the code of the targets in fails cannot be
\* written, and the engine may stop at the first of them
reported(instance, fails, stops) ==
    LET work == {t \in DOMAIN instance.hooks :
                    instance.hooks[t].queued # instance.hooks[t].enabled}
        failing == work \cap fails
        first == CHOOSE f \in failing : \A g \in failing : f <= g
        done == IF failing = {} \/ ~stops THEN work
                ELSE {t \in work : t <= first}
    IN  IF ~instance.init THEN [t \in {} |-> "MH_OK"]
        ELSE [t \in done |->
                IF t \in failing THEN "MH_ERROR_MEMORY_PROTECT" ELSE "MH_OK"]

\* the status MH_ApplyQueued (logger) returns
MH_ApplyQueued_logged(instance, reports) ==
    IF ~instance.init THEN "MH_ERROR_NOT_INITIALIZED"
    ELSE IF \E t \in DOMAIN reports : reports[t] # "MH_OK"
    THEN "MH_ERROR_MEMORY_PROTECT"
    ELSE "MH_OK"

\* the engine after MH_ApplyQueued (logger)
applied_logged(instance, reports) ==
    [instance EXCEPT !.hooks =
        [t \in DOMAIN instance.hooks |->
            IF t \in DOMAIN reports /\ reports[t] = "MH_OK"
            THEN [instance.hooks[t] EXCEPT !.enabled = instance.hooks[t].queued]
            ELSE instance.hooks[t]]]

\* a logger that marks every hook it hears of as applied
logger_any_status(h, status) ==
    [h EXCEPT !.applied = TRUE, !.status = "applied"]

\* the logger of sseh_enable_hooks, on the hook of the target
logger(h, status) ==
    IF status = "MH_OK"
    THEN [h EXCEPT !.applied = TRUE, !.status = "applied"]
    ELSE [h EXCEPT !.status = "MH_ApplyQueued " \o status]

\* the hooks after the logger has heard all the reports
logged(hs, addresses, reports) ==
    [i \in DOMAIN hs |->
        IF \E t \in DOMAIN reports \cap DOMAIN addresses : addresses[t] + 1 = i
        THEN logger(hs[i], reports[hs[i].target])
        ELSE hs[i]]

sseh_enable_hooks ==
    \E apply \in {0, 1}, fails \in SUBSET Addrs, stops \in BOOLEAN :
        LET q == MH_QueueAllHooks(mh[0])
            instance == queued_all(mh[0], apply # 0)
            reports == reported(instance, fails, stops)
            status == MH_ApplyQueued_logged(instance, reports)
        IN  /\ EarlyCall("sseh_enable_hooks", [apply |-> apply])
            /\ UNCHANGED <<hook_names, hook_addresses>>
            /\ IF q # "MH_OK"
               THEN /\ ret' = "false"
                    /\ out' = NoOut
                    /\ sseh_error' = "sseh_enable_hooks MH_QueueEnableHook " \o q
                    /\ UNCHANGED <<hooks, mh>>
               ELSE /\ out' = [reports |-> reports]
                    /\ hooks' = logged(hooks, hook_addresses, reports)
                    /\ mh' = [mh EXCEPT ![0] = applied_logged(instance, reports)]
                    /\ IF status # "MH_OK"
                       THEN /\ ret' = "false"
                            /\ sseh_error' =
                                 "sseh_enable_hooks MH_QueueEnableHook " \o status
                       ELSE /\ ret' = "true"
                            /\ sseh_error' =
                                 IF \E t \in DOMAIN reports : t \notin DOMAIN hook_addresses
                                 THEN "operator() non-managed hook detected"
                                 ELSE ""

EarlyInit ==
    /\ Loaded
    /\ addrlib = EmptyLibrary
    /\ ndebug
    /\ limit = MaxEarlyCalls

EarlyNext ==
    \/ sseh_init_v1
    \/ sseh_uninit_v1
    \/ sseh_map_hook
    \/ sseh_hook_status
    \/ sseh_detour_v1
    \/ sseh_enable_hooks

Early == EarlyInit /\ [][EarlyNext]_vars

(***************************************************************************)
(* The hooks as sseh_hook_status reports them.                             *)
(***************************************************************************)
\* sseh_hook_status reports the hook of the name as applied
Reported(name) == hook_status(hooks, hook_names, name).applied

\* the hook of the name was applied before the last call
WasApplied(name) ==
    \E i \in DOMAIN prev_hooks : prev_hooks[i].name = name /\ prev_hooks[i].applied

\* the target of a name that is mapped
EarlyTarget(name) == hook_at(hooks, hook_names[name]).target

\* what the engine reported to the logger in the last sseh_enable_hooks
Reports == IF "reports" \in DOMAIN out THEN out.reports ELSE [t \in {} |-> "MH_OK"]

(***************************************************************************)
(* C22: staging is apart from commit: no call but the apply makes a hook   *)
(* reported as applied, so after sseh_map_hook and sseh_detour it is       *)
(* reported as not applied until an apply, and a hook becomes reported as  *)
(* applied only in an apply in which the engine patched its target.        *)
(***************************************************************************)
\* no patch was put in place or taken out by the last call
PatchesAsBefore ==
    \A slot \in Slots : \A t \in DOMAIN mh[slot].hooks :
        mh[slot].hooks[t].enabled =
            (t \in DOMAIN prev_mh[slot].hooks /\ prev_mh[slot].hooks[t].enabled)

PatchInPlace(name) ==
    /\ name \in DOMAIN hook_names
    /\ EarlyTarget(name) \in DOMAIN mh[0].hooks
    /\ mh[0].hooks[EarlyTarget(name)].enabled

C24_StatusReflectsEnablement ==
    \A name \in EarlyNames : Reported(name) => PatchInPlace(name)

(***************************************************************************)
(* C25: a sseh_detour that succeeds does three things in the selected      *)
(* profile: the engine has a new hook from the target of the entry to the  *)
(* detour, the entry has a patch record for the detour whose "original" is *)
(* the trampoline of the engine, and the target is queued for enabling;    *)
(* the original given back is the one recorded.                            *)
(***************************************************************************)
C25_DetourEffects ==
    (op = "sseh_detour" /\ ret = "true")
    => /\ HasTarget(sseh_json, arg.name)
       /\ LET t == TargetOf(sseh_json, arg.name)
              key == hex_string(arg.detour)
              patches == DetoursOf(Map(sseh_json)[arg.name])
          IN  /\ t = DetourTarget.target
              /\ t \notin DOMAIN prev_mh[cur].hooks
              /\ t \in DOMAIN mh[cur].hooks
              /\ mh[cur].hooks[t].detour = arg.detour
              /\ mh[cur].hooks[t].queued
              /\ ~mh[cur].hooks[t].enabled
              /\ key \in DOMAIN patches
              /\ contains(patches[key], K_original)
              /\ is_pointer(patches[key].o[K_original])
              /\ pointer_value(patches[key].o[K_original]) = mh[cur].hooks[t].trampoline
              /\ out = [original |-> pointer_value(patches[key].o[K_original])]
              /\ \A slot \in Slots \ {cur} : mh[slot] = prev_mh[slot]

\* a detour of a mapped name succeeds in a profile that is not the first
C25_Witness ==
    /\ op = "sseh_detour"
    /\ ret = "true"
    /\ cur # 0
    /\ HasTarget(prev_json, arg.name)

(***************************************************************************)
(* C26: sseh_detour of a name "function@module" resolves and maps in one   *)
(* step: without an entry for the name it finds the target among the       *)
(* exports of the module, and when it succeeds the registry has an entry   *)
(* for the name whose target is that address; when the module or the       *)
(* function is not there it fails and no entry is made.                    *)
(***************************************************************************)
Qualified(name) == \E i \in 1..Len(name) : name[i] = "@"

C26_QualifiedDetour ==
    (op = "sseh_detour" /\ Qualified(arg.name))
    => IF Exported(arg.name)
       THEN /\ arg.name \notin DOMAIN Map(prev_json)
                 => ret = "true" \/ sseh_error \in
                        {"sseh_detour MH_CreateHook " \o status :
                            status \in {"MH_ERROR_NOT_INITIALIZED",
                                        "MH_ERROR_ALREADY_CREATED",
                                        "MH_ERROR_UNSUPPORTED_FUNCTION"}}
            /\ ret = "true"
                 => /\ HasTarget(sseh_json, arg.name)
                    /\ TargetOf(sseh_json, arg.name) = HostExports.address
            /\ ret = "false" => sseh_json = prev_json
       ELSE /\ ret = "false"
            /\ sseh_json = prev_json
            /\ mh = prev_mh

\* a name of an export that has no entry is detoured
C26_Witness ==
    /\ op = "sseh_detour"
    /\ Exported(arg.name)
    /\ arg.name \notin DOMAIN Map(prev_json)
    /\ ret = "true"
    /\ arg.name \in DOMAIN Map(sseh_json)

(***************************************************************************)
(* C27: sseh_enable and sseh_disable fail for a name that resolves to no   *)
(* target, without a call of the engine; when they succeed the target of   *)
(* the name is queued in the selected instance and nothing else changes:   *)
(* every patch record, and the whole document, is as it was.               *)
(***************************************************************************)
\* the name resolves: the registry has a target for it, or the library has
Resolves(name) == HasTarget(prev_json, name) \/ InLibrary(name)

ResolvedTarget(name) ==
    IF HasTarget(prev_json, name) THEN TargetOf(prev_json, name)
    ELSE LibraryAddress(name)

C27_EnableDisableFrame ==
    (op \in {"sseh_enable", "sseh_disable"})
    => /\ sseh_json = prev_json
       /\ ~Resolves(arg.name)
            => /\ ret = "false"
               /\ mh = prev_mh
               /\ sseh_error = "sseh_find_target " \o RegistryError(prev_json, arg.name)
       /\ ret = "true"
            => /\ Resolves(arg.name)
               /\ ResolvedTarget(arg.name) \in DOMAIN prev_mh[cur].hooks
               /\ mh = [prev_mh EXCEPT
                          ![cur].hooks[ResolvedTarget(arg.name)].queued =
                              (op = "sseh_enable")]
       /\ ret = "false" => mh = prev_mh

\* a hook that waits to be enabled is queued for disabling
C27_Witness ==
    /\ op = "sseh_disable"
    /\ ret = "true"
    /\ prev_mh[cur].hooks[ResolvedTarget(arg.name)].queued
    /\ ~mh[cur].hooks[ResolvedTarget(arg.name)].queued
    /\ DetoursOf(Map(sseh_json)[arg.name]) # NoMembers

(***************************************************************************)
(* C28: every public operation clears the error first: after a call that   *)
(* returns success the error message of the library is empty, so that the  *)
(* message of an earlier call that failed is not reported any more.        *)
(***************************************************************************)
C28_ErrorClearedOnSuccess == ret = "true" => sseh_error = ""

(***************************************************************************)
(* Two threads that call the API.  A call of sseh_find_target or of        *)
(* sseh_last_error is one step; sseh_map_name is two, the lookup and the   *)
(* write, and the other thread can run between them, for nothing locks     *)
(* the document.                                                           *)
(***************************************************************************)
\* a thread enters the API, or goes on in it
Enter(thread, name, argument) ==
    /\ alive
    /\ calls < limit
    /\ calls' = calls + 1
    /\ op' = name
    /\ arg' = argument
    /\ caller' = thread
    /\ prev_json' = sseh_json
    /\ UNCHANGED <<sseh_profiles, mh, cur, addrlib, ndebug, limit, prev_mh,
                   prev_profiles, hooks, hook_names, hook_addresses, prev_hooks,
                   prev_cur>>

\* names the threads give
ThreadNames == {S_f, S_g}

\* the thread is between the lookup and the write of sseh_map_name
InMapName(thread) == pending[thread] # NoOut /\ pending[thread].ret = "none"

ThreadFindTarget ==
    \E thread \in Threads, name \in ThreadNames :
        LET r == sseh_find_target(sseh_json, addrlib, name)
        IN  /\ ~InMapName(thread)
            /\ Enter(thread, "sseh_find_target", [name |-> name])
            /\ ret' = Bool(r.ok)
            /\ out' = [target |-> r.target]
            /\ sseh_error' = r.error
            /\ own' = [own EXCEPT ![thread] = r.error]
            /\ UNCHANGED <<sseh_json, alive, pending>>

ThreadLastError ==
    \E thread \in Threads, err \in OsErrors :
        /\ ~InMapName(thread)
        /\ Enter(thread, "sseh_last_error", NoOut)
        /\ ret' = "void"
        /\ out' = [message |-> last_error(sseh_error, err)]
        /\ UNCHANGED <<sseh_json, sseh_error, own, alive, pending>>

\* sseh_map_name up to the return of sseh_find_target: a name that has a
\* target is settled here, for any other name the write follows
ThreadMapNameFind ==
    \E thread \in Threads, name \in ThreadNames, address \in Addrs :
        LET f == sseh_find_target(sseh_json, addrlib, name)
            error == IF ~f.ok THEN f.error
                     ELSE IF f.target = address THEN ""
                     ELSE "sseh_map_name target already different"
            result == IF ~f.ok THEN "none" ELSE Bool(f.target = address)
        IN  /\ pending[thread] = NoOut
            /\ Enter(thread, "sseh_map_name", [name |-> name, address |-> address])
            /\ ret' = result
            /\ out' = NoOut
            /\ sseh_error' = error
            /\ own' = [own EXCEPT ![thread] = error]
            /\ pending' = [pending EXCEPT ![thread] =
                             [name |-> name, address |-> address, ret |-> result]]
            /\ UNCHANGED <<sseh_json, alive>>

\* the rest of sseh_map_name: try_call clears the error and writes the
\* target.  While the other thread is inside sseh_map_name too, the two
\* work on the document at once, and the process may as well break
ThreadMapNameWrite ==
    \E thread \in Threads, broken \in BOOLEAN :
        LET name == pending[thread].name
            address == pending[thread].address
            r == assign(sseh_json, <<K_map, name, K_target>>, JStr(hex_string(address)))
            result == IF broken THEN "abort" ELSE Bool(r.ok)
            error == IF r.ok THEN "" ELSE "sseh_map_name type_error"
        IN  /\ InMapName(thread)
            /\ broken => \E other \in Threads \ {thread} : InMapName(other)
            /\ Enter(thread, "sseh_map_name", [name |-> name, address |-> address])
            /\ ret' = result
            /\ out' = NoOut
            /\ alive' = ~broken
            /\ sseh_json' = IF broken THEN sseh_json ELSE r.j
            /\ sseh_error' = IF broken THEN sseh_error ELSE error
            /\ own' = IF broken THEN own ELSE [own EXCEPT ![thread] = error]
            /\ pending' = [pending EXCEPT ![thread].ret = result]

ConcurrentInit ==
    /\ Loaded
    /\ addrlib = EmptyLibrary
    /\ ndebug
    /\ limit = MaxThreadCalls

ConcurrentNext ==
    \/ ThreadFindTarget
    \/ ThreadLastError
    \/ ThreadMapNameFind
    \/ ThreadMapNameWrite

Concurrent == ConcurrentInit /\ [][ConcurrentNext]_vars

(***************************************************************************)
(* C29: the error text is per thread: the message a thread reads with      *)
(* sseh_last_error is the one its own last call left, never one that       *)
(* another thread set or cleared.                                          *)
(***************************************************************************)
C29_ErrorPerThread ==
    op = "sseh_last_error"
    => \E err \in OsErrors : out.message = last_error(own[caller], err)

(***************************************************************************)
(* C30: the mutations of the registry exclude each other: when two threads *)
(* have run sseh_map_name, the registry and the results are those of the   *)
(* two calls in some serial order, no call broke the process, and two      *)
(* calls that give one name two addresses, or two names one address, have  *)
(* not both succeeded.                                                     *)
(***************************************************************************)
\* the thread has returned from sseh_map_name
Returned(thread) == pending[thread] # NoOut /\ pending[thread].ret \in {"true", "false"}

\* the calls of the two threads, one after the other, on the empty registry
SerialOrder(first, second) ==
    LET r1 == sseh_map_name(JNull, addrlib, pending[first].name, pending[first].address)
        r2 == sseh_map_name(r1.json, addrlib, pending[second].name,
                            pending[second].address)
    IN  /\ sseh_json = r2.json
        /\ pending[first].ret = Bool(r1.ret)
        /\ pending[second].ret = Bool(r2.ret)

C30_MutuallyExclusive ==
    /\ \A thread \in Threads : pending[thread] # NoOut => pending[thread].ret # "abort"
    /\ (Returned(1) /\ Returned(2))
       => /\ SerialOrder(1, 2) \/ SerialOrder(2, 1)
          /\ (pending[1].name = pending[2].name
              /\ pending[1].address # pending[2].address)
             => ~(pending[1].ret = "true" /\ pending[2].ret = "true")
          /\ (pending[1].name # pending[2].name
              /\ pending[1].address = pending[2].address)
             => ~(pending[1].ret = "true" /\ pending[2].ret = "true")

(***************************************************************************)
(* The queries that give a string back: sseh_last_error, sseh_find_name    *)
(* and sseh_identify, with the size and the buffer of the caller, on a     *)
(* registry that sseh_map_name fills with names of any characters.         *)
(***************************************************************************)
\* a size_t* that is nullptr
NullSize == -1

\* what is in a buffer nothing was written to
NoText == <<"?">>

\* the terminating '\0'
NUL == "NUL"

Min(a, b) == IF a < b THEN a ELSE b

\* copy_string (src, n, dst): what *n is on exit, and what dst holds. n is
\* the size given, or NullSize; dst is TRUE for a buffer
copy_string(src, n, dst) ==
    IF n = NullSize THEN [size |-> NullSize, text |-> NoText]
    ELSE [size |-> Len(src) + 1,
          text |-> IF ~dst THEN NoText
                   ELSE IF n > 0 THEN SubSeq(src, 1, Min(n - 1, Len(src))) \o <<NUL>>
                   ELSE <<NUL>>]

\* the sizes a caller gives: none at all, or the one the last call reported
Sizes == {0} \cup (IF "size" \in DOMAIN out /\ out.size > 0 THEN {out.size} ELSE {})

\* names with the characters JSON pointers give a meaning to
S_a_b == <<"a", "/", "b">>
S_tilde == <<"~">>
QueryNames == {S_f, S_a_b, S_tilde}

SsehMapNameAny ==
    \E name \in QueryNames, address \in Addrs :
        LET r == sseh_map_name(sseh_json, addrlib, name, address)
        IN  /\ Call("sseh_map_name", [name |-> name, address |-> address])
            /\ ret' = Bool(r.ret)
            /\ out' = NoOut
            /\ sseh_json' = r.json
            /\ sseh_error' = r.error
            /\ UNCHANGED <<sseh_profiles, mh, cur, alive>>

SsehFindTargetAny ==
    \E name \in QueryNames :
        LET r == sseh_find_target(sseh_json, addrlib, name)
        IN  /\ Call("sseh_find_target", [name |-> name])
            /\ ret' = Bool(r.ok)
            /\ out' = [target |-> r.target]
            /\ sseh_error' = r.error
            /\ UNCHANGED <<sseh_json, sseh_profiles, mh, cur, alive>>

\* sseh_json["map"] of the non-const operator[]: a null becomes an object,
\* a member that is missing is created as null
subscript(json, key) ==
    IF json.t = "null" THEN [ok |-> TRUE, j |-> JObj(key :> JNull)]
    ELSE IF ~is_object(json) THEN [ok |-> FALSE, j |-> json]
    ELSE IF key \in DOMAIN json.o THEN [ok |-> TRUE, j |-> json]
    ELSE [ok |-> TRUE, j |-> JObj(Put(json.o, key, JNull))]

\* the entries sseh_find_name stops at: they have a target, it is an
\* address, and it is the one asked for
found(map, target) ==
    {it \in items(map) :
        /\ contains(it[2], K_target)
        /\ is_pointer(it[2].o[K_target])
        /\ pointer_value(it[2].o[K_target]) = target}

\* what sseh_find_name finds: the first name, in the order of the keys,
\* whose target is the address, and the document the search leaves
find_name(json, target) ==
    LET s == subscript(json, K_map)
        map == IF contains(s.j, K_map) THEN s.j.o[K_map] ELSE JNull
        names == sorted({it[1] : it \in found(map, target)})
    IN  IF ~s.ok
        THEN [ok |-> FALSE, name |-> <<>>, json |-> json,
              error |-> "sseh_find_name type_error"]
        ELSE IF names = <<>>
        THEN [ok |-> FALSE, name |-> <<>>, json |-> s.j, error |-> ""]
        ELSE [ok |-> TRUE, name |-> names[1], json |-> s.j, error |-> ""]

sseh_find_name ==
    \E target \in Addrs, size \in Sizes \cup {NullSize}, name \in BOOLEAN :
        LET r == find_name(sseh_json, target)
            c == copy_string(r.name, size, name)
        IN  /\ Call("sseh_find_name", [target |-> target, size |-> size, dst |-> name])
            /\ ret' = Bool(r.ok)
            /\ out' = IF r.ok THEN [size |-> c.size, text |-> c.text, src |-> r.name]
                      ELSE NoOut
            /\ sseh_json' = r.json
            /\ sseh_error' = r.error
            /\ UNCHANGED <<sseh_profiles, mh, cur, alive>>

QueryPointers == {<<"/">>, P_map, P_map_f_target}

\* sseh_identify with the size and the buffer
sseh_identify_into ==
    \E pointer \in QueryPointers, size \in Sizes \cup {NullSize}, json \in BOOLEAN :
        LET r == identify(sseh_json, pointer)
            c == copy_string(r.json, size, json)
        IN  /\ Call("sseh_identify", [pointer |-> pointer, size |-> size, dst |-> json])
            /\ UNCHANGED <<sseh_json, sseh_profiles, mh, cur, alive>>
            /\ ret' = Bool(r.ok)
            /\ out' = IF r.ok THEN [size |-> c.size, text |-> c.text, src |-> r.json]
                      ELSE NoOut
            /\ sseh_error' = IF r.ok THEN "" ELSE "sseh_identify json exception"

\* sseh_last_error with the size and the buffer: without any error *size is
\* 0 and the message is empty
sseh_last_error_into ==
    \E err \in OsErrors, size \in Sizes, message \in BOOLEAN :
        LET m == chars(last_error(sseh_error, err))
            c == copy_string(m, size, message)
        IN  /\ Call("sseh_last_error", [size |-> size, dst |-> message])
            /\ ret' = "void"
            /\ out' = IF m # <<>> THEN [size |-> c.size, text |-> c.text, src |-> m]
                      ELSE [size |-> 0,
                            text |-> IF message THEN <<NUL>> ELSE NoText,
                            src |-> m]
            /\ UNCHANGED <<sseh_json, sseh_profiles, sseh_error, mh, cur, alive>>

QueriesInit ==
    /\ Loaded
    /\ addrlib = EmptyLibrary
    /\ ndebug
    /\ limit = MaxQueryCalls

QueriesNext ==
    \/ SsehInit
    \/ SsehMapNameAny
    \/ SsehFindTargetAny
    \/ sseh_find_name
    \/ sseh_identify_into
    \/ sseh_last_error_into

Queries == QueriesInit /\ [][QueriesNext]_vars

(***************************************************************************)
(* C31: the two calls of a string: sseh_last_error, sseh_find_name and     *)
(* sseh_identify called without a buffer report the size that is needed;   *)
(* called again with a buffer of that very size they deliver the whole     *)
(* string with its '\0', and the size they report then is the number of    *)
(* bytes of the string, the '\0' not counted.                              *)
(***************************************************************************)
\* the second call: the same function, with a buffer of the size the first
\* call reported
SecondCall ==
    /\ op \in {"sseh_last_error", "sseh_find_name", "sseh_identify"}
    /\ ret \in {"true", "void"}
    /\ "dst" \in DOMAIN arg
    /\ arg.dst
    /\ arg.size > 0
    /\ arg.size >= Len(out.src) + 1

C31_TwoCalls ==
    SecondCall
    => /\ out.text = out.src \o <<NUL>>
       /\ Len(out.text) <= arg.size
       /\ out.size = Len(out.src)

(***************************************************************************)
(* The start of the plugin: merge_patches merges the files of the patch    *)
(* folder.  A file is [name, opens |-> can it be opened, text].            *)
(***************************************************************************)
FileNames == {<<"a">>, <<"b">>}

FileTexts == {
    Patch(<<Operation("add", P_map, JObj(NoMembers))>>),
    Patch(<<Operation("add", P_map, JObj(S_g :> Hook(JStr(A_0x20))))>>),
    Patch(<<Operation("add", P_map_g_target, JStr(A_16))>>),
    Patch(<<Operation("add", P_map_g, Hook(JStr(A_z)))>>),
    Unparsable }

Files == [name : FileNames, opens : BOOLEAN, text : FileTexts]

\* what enumerate_files can list: files of different names, in any order
Folders ==
    {<<>>} \cup {<<f>> : f \in Files}
    \cup {pair \in {<<f, g>> : f \in Files, g \in Files} : pair[1].name # pair[2].name}

\* the files as they were listed
files_as_listed(files) == files

\* std::sort (files.begin (), files.end ()): by name
sort_files(files) ==
    LET names == sorted({files[i].name : i \in 1..Len(files)})
    IN  [i \in 1..Len(files) |->
            files[CHOOSE k \in 1..Len(files) : files[k].name = names[i]]]

\* what sseh_merge_patch (content) can make of a document: what it returns
\* and the document after it
merge_outcomes(json, text, assertions_off) ==
    LET j == patch(json, text.json, assertions_off)
    IN  IF ~text.parsable \/ j.st = "throw" THEN {[ret |-> "false", json |-> json]}
        ELSE IF j.st = "abort" THEN {[ret |-> "abort", json |-> json]}
        ELSE {[ret |-> (CASE outcome = "ok" -> "true"
                          [] outcome = "throw" -> "false"
                          [] outcome = "abort" -> "abort"),
               json |-> IF outcome = "ok" THEN j.j ELSE json] :
                 outcome \in validate_outcomes(j.j, assertions_off)}

\* one file that opens: sseh_merge_patch, log_error when it failed, and
\* log_dump, whose sseh_identify ("/") clears the error
merged_file(st, file, outcome) ==
    [json |-> outcome.json,
     error |-> IF outcome.ret = "abort" THEN st.error ELSE "",
     alive |-> outcome.ret # "abort",
     results |-> Append(st.results, [file |-> file.name, ret |-> outcome.ret])]

\* the loop over the files: the states it can end in
RECURSIVE merge_loop(_, _, _)
merge_loop(files, st, assertions_off) ==
    IF files = <<>> \/ ~st.alive THEN {st}
    ELSE IF ~Head(files).opens
    THEN merge_loop(Tail(files),
                    [st EXCEPT !.results =
                        Append(@, [file |-> Head(files).name, ret |-> "unopened"])],
                    assertions_off)
    ELSE UNION {merge_loop(Tail(files), merged_file(st, Head(files), outcome),
                           assertions_off) :
                  outcome \in merge_outcomes(st.json, Head(files).text, assertions_off)}

\* SKSEPlugin_Load calls it when sseh_init has returned true
merge_patches ==
    \E folder \in Folders, listed \in BOOLEAN :
        \E r \in merge_loop(IF listed THEN sort_files(folder) ELSE <<>>,
                            [json |-> sseh_json, error |-> sseh_error,
                             alive |-> TRUE, results |-> <<>>],
                            ndebug) :
            /\ op = "sseh_init" /\ ret = "true"
            /\ Call("merge_patches", [folder |-> folder, listed |-> listed])
            /\ ret' = IF r.alive THEN "true" ELSE "abort"
            /\ out' = [results |-> r.results]
            /\ sseh_json' = r.json
            /\ sseh_error' = r.error
            /\ alive' = r.alive
            /\ UNCHANGED <<sseh_profiles, mh, cur>>

StartupInit == Loaded /\ limit = MaxStartupCalls

\* sseh_init and merge_patches of SKSEPlugin_Load, sseh_apply of
\* handle_skse_message
StartupNext ==
    \/ SsehInit
    \/ merge_patches
    \/ sseh_apply

Startup == StartupInit /\ [][StartupNext]_vars

(***************************************************************************)
(* C32: the layering at the start is deterministic: the files of the patch *)
(* folder are merged one at a time in the ascending order of their names;  *)
(* a file that does not open, or whose merge fails, is skipped and leaves  *)
(* the document as it was, the files after it are merged all the same, and *)
(* the document at the end is the one the files that were merged give in   *)
(* that order.                                                             *)
(***************************************************************************)
\* the files of the folder by ascending name
Ascending(folder) ==
    LET names == sorted({folder[i].name : i \in 1..Len(folder)})
    IN  [i \in 1..Len(folder) |->
            CHOOSE f \in {folder[k] : k \in 1..Len(folder)} : f.name = names[i]]

\* the document after the first n files, given what became of each
RECURSIVE Layered(_, _, _, _)
Layered(json, files, results, n) ==
    IF n = 0 THEN json
    ELSE LET before == Layered(json, files, results, n - 1)
         IN  IF results[n].ret = "true"
             THEN patch(before, files[n].text.json, ndebug).j
             ELSE before

C32_SortedLayering ==
    (op = "merge_patches" /\ ret = "true" /\ arg.listed)
    => LET files == Ascending(arg.folder)
           results == out.results
       IN  /\ Len(results) = Len(files)
           /\ \A i \in 1..Len(files) :
                /\ results[i].file = files[i].name
                /\ results[i].ret = "unopened" <=> ~files[i].opens
                /\ results[i].ret = "true" => files[i].text.parsable
           /\ \A i \in 1..(Len(files) - 1) : less(files[i].name, files[i + 1].name)
           /\ sseh_json = Layered(prev_json, files, results, Len(files))

\* the folder lists the later file first; the earlier file fails to merge,
\* the later one is merged, and the order of the two matters
C32_Witness ==
    /\ op = "merge_patches"
    /\ ret = "true"
    /\ arg.listed
    /\ Len(arg.folder) = 2
    /\ less(arg.folder[2].name, arg.folder[1].name)
    /\ out.results[1].ret = "false"
    /\ out.results[2].ret = "true"
    /\ sseh_json # prev_json

\* both files are merged, and in the other order the document would differ
C32_OrderMatters ==
    /\ op = "merge_patches"
    /\ ret = "true"
    /\ Len(out.results) = 2
    /\ out.results[1].ret = "true"
    /\ out.results[2].ret = "true"
    /\ LET files == Ascending(arg.folder)
       IN  sseh_json # patch(patch(prev_json, files[2].text.json, ndebug).j,
                             files[1].text.json, ndebug).j

(***************************************************************************)
(* C33: the patch records of an entry are kept in the order of the         *)
(* requests: when a detour is recorded for an entry that has records       *)
(* already, enumerating the records of the entry gives the ones it had, in *)
(* the order they had, and then the new one.                               *)
(***************************************************************************)
\* the detours of an entry as the document enumerates them: the members of
\* a JSON object come in the order of their keys
enum_detours(json, name) ==
    IF HasTarget(json, name) /\ contains(Map(json)[name], K_detours)
       /\ is_object(Map(json)[name].o[K_detours])
    THEN sorted(DOMAIN Map(json)[name].o[K_detours].o)
    ELSE <<>>

\* a detour is recorded that the entry did not have
NewRecord ==
    /\ op = "sseh_detour"
    /\ ret = "true"
    /\ enum_detours(prev_json, arg.name) # <<>>
    /\ \A i \in 1..Len(enum_detours(prev_json, arg.name)) :
           enum_detours(prev_json, arg.name)[i] # hex_string(arg.detour)

C33_RequestOrder ==
    NewRecord
    => enum_detours(sseh_json, arg.name)
         = Append(enum_detours(prev_json, arg.name), hex_string(arg.detour))

(***************************************************************************)
(* C34: within one entry no two patch records have the same detour         *)
(* address: a sseh_detour with a detour address the entry has recorded     *)
(* already fails and leaves the records of the entry, detour and original, *)
(* as they were, whichever profile is selected.                            *)
(***************************************************************************)
\* the patch records of an entry: the original of each detour
Records(json, name) ==
    IF enum_detours(json, name) = <<>> THEN NoMembers
    ELSE Map(json)[name].o[K_detours].o

\* the detour of the call is recorded for the entry already
Repeated ==
    /\ op = "sseh_detour"
    /\ hex_string(arg.detour) \in DOMAIN Records(prev_json, arg.name)

C34_UniqueDetour ==
    Repeated
    => /\ ret = "false"
       /\ Records(sseh_json, arg.name) = Records(prev_json, arg.name)

(***************************************************************************)
(* C35: no exception crosses the public boundary: in every document state  *)
(* that can be reached, also after a load or a merge patch of a valid      *)
(* document whose "profiles" member is no object, a call of the API comes  *)
(* back with its result, and an exception never leaves it.                 *)
(***************************************************************************)
C35_NoException ==
    op # "none" => ret # "exception"

(***************************************************************************)
(* C36: the lookups are queries: sseh_find_target, sseh_find_name,         *)
(* sseh_identify and sseh_last_error leave the document exactly as it was, *)
(* whether they succeed or fail and whether the document has a "map"       *)
(* member or not.                                                          *)
(***************************************************************************)
Lookups == {"sseh_find_target", "sseh_find_name", "sseh_identify", "sseh_last_error"}

C36_LookupsPure ==
    op \in Lookups => sseh_json = prev_json

(***************************************************************************)
(* C37: a sseh_detour that fails changes nothing: the document is as it    *)
(* was and the selected engine instance holds no hook that it did not hold *)
(* before the call.                                                        *)
(***************************************************************************)
C37_FailedDetourFrame ==
    (op = "sseh_detour" /\ ret = "false")
    => /\ sseh_json = prev_json
       /\ DOMAIN mh[cur].hooks = DOMAIN prev_mh[cur].hooks

(***************************************************************************)
(* C38: a sseh_profile that fails leaves the selection as it was: the      *)
(* engine instance that is selected after the call is the one that was     *)
(* selected before it.                                                     *)
(***************************************************************************)
C38_FailedProfileFrame ==
    (op \in {"sseh_profile", "sseh_init"} /\ ret = "false") => cur = prev_cur

(***************************************************************************)
(* C39: sseh_uninit brings the library back to the state before sseh_init: *)
(* a sseh_init that returns true, also after a sseh_uninit, leaves the     *)
(* engine instance of the default profile selected and initialized.        *)
(***************************************************************************)
C39_InitInitializes ==
    (op = "sseh_init" /\ ret = "true")
    => /\ <<>> \in DOMAIN sseh_profiles
       /\ cur = sseh_profiles[<<>>]
       /\ mh[cur].init

(***************************************************************************)
(* C40: sseh_map_name and sseh_find_target are inverse for every name,     *)
(* whatever characters it has, '/' and '~' too: after sseh_map_name of a   *)
(* name and an address has returned true, sseh_find_target of the name     *)
(* succeeds with that address, and sseh_find_name of the address gives a   *)
(* name whose target is the address.                                       *)
(***************************************************************************)
C40_MapFindInverse ==
    (op = "sseh_map_name" /\ ret = "true")
    => LET f == sseh_find_target(sseh_json, addrlib, arg.name)
           n == find_name(sseh_json, arg.address)
       IN  /\ f.ok
           /\ f.target = arg.address
           /\ n.ok
           /\ HasTarget(sseh_json, n.name)
           /\ TargetOf(sseh_json, n.name) = arg.address

====
